---- MODULE Spec2Model ----
(***************************************************************************)
(* Model of the comp-pricing core of Monterey-Sports-Cards                 *)
(* (src/pricing/pricing_engine.py, src/helpers_v10.py).                    *)
(*                                                                         *)
(* Money is counted in whole cents (2.50 -> 250).  Python None for an      *)
(* optional price is the sentinel None; every real price is >= 0.          *)
(* Where the source's binary floating point decides a rounding tie the     *)
(* model takes the direction from the variable fp, so both outcomes the    *)
(* interpreter can produce are explored.                                   *)
(***************************************************************************)
EXTENDS Integers, Sequences, FiniteSets, TLC

VARIABLES
    pc,              \* position of the modelled call
    active_totals,   \* get_price_strict argument: raw active prices
    sold_totals,     \* get_price_strict argument: raw sold prices
    current_price,   \* get_price_strict argument: current listing price or None
    fp,              \* direction of the floating point error at a rounding tie
    ret,             \* value returned by get_price_strict
    value,           \* _human_round argument
    rounded,         \* _human_round(value)
    rounded2,        \* _human_round(_human_round(value))
    extra,           \* the additional active price of the lowest-K comparison
    ret2,            \* get_price_strict result for active_totals plus extra
    tables,          \* the rule tables loaded at import (module globals)
    title,           \* subject title (base_title / title argument)
    sold,            \* _fetch_prices_for_query argument sold
    items,           \* itemSummaries of the response / merged_items
    idx,             \* number of items the for loop has gone through
    subject_sig,     \* local subject_sig
    subject_serial,  \* local subject_serial
    totals,          \* local totals / filtered_items
    removed,         \* the comps the loop has skipped, each with the stage
                     \* whose continue skipped it
    last,            \* the comp of the last loop iteration and its outcome
    raised,          \* exception that ended the call, "" when none
    responses,       \* the answers of the backend to the HTTP requests of one
                     \* _request call, in order
    sent,            \* number of HTTP requests _request has issued
    slept,           \* the durations of the time.sleep calls, in seconds
    result,          \* the response _request returns, NoResponse for None
    active_cache,    \* search_active argument: the active cache
    browse_queries,  \* local browse_queries of search_active
    finding_queries, \* local finding_queries of search_active
    calls,           \* the fetcher calls search_active has made, each with
                     \* the backend's answer and the fetcher's outcome
    merged_items,    \* local merged_items
    filtered_items,  \* local filtered_items
    removed_items,   \* local removed_items
    act_source,      \* second component of the value search_active returns
    supply_count,    \* third component of the value search_active returns
    norm_once,       \* normalize_title_global(title)
    norm_twice,      \* normalize_title_global(normalize_title_global(title))
    norm_upper,      \* normalize_title_global(title.upper())
    token_queries,   \* value returned by _build_token_based_queries(title)
    dynamic_query,   \* value returned by _build_dynamic_query(title)
    summary,         \* _extract_total_price argument: a Browse item summary
    finding_item,    \* _extract_total_price_finding argument: a Finding item
    browse_total,    \* value returned by _extract_total_price(summary)
    finding_total,   \* value returned by _extract_total_price_finding
    DRY_RUN,         \* global DRY_RUN: TEST mode when true, LIVE mode when false
    SANDBOX_MODE,    \* global SANDBOX_MODE
    choice,          \* the last menu choice of main
    flags_before,    \* DRY_RUN and SANDBOX_MODE before the last menu choice
    resume_from_index, \* local resume_from_index of main, None or an index
    processed_ids,   \* local processed_ids of main
    item_no,         \* number of ids the main loop has gone through
    results,         \* local results of main: the ids of the rows
    row,             \* the row of the last process_item call, with the
                     \* prices it compared and whether it called
                     \* update_ebay_price
    touched,         \* what the run has done so far outside its memory
    resume_file,     \* content of the resume index file, None when absent
    autosave,        \* the autosave folder: the autosave file, its .tmp
                     \* file and the number of timestamped fallback files
    frame_len,       \* len(df) of the last _autosave_write_atomic call
    save_calls       \* number of _autosave_write_atomic calls so far

priceVars == <<active_totals, sold_totals, current_price, fp, ret>>
roundVars == <<value, rounded, rounded2>>
medianVars == <<extra, ret2>>
filterVars == <<tables, title, sold, items, idx, subject_sig, subject_serial,
                totals, removed, last, raised>>

requestVars == <<responses, sent, slept, result>>

activeVars == <<active_cache, browse_queries, finding_queries, calls,
                merged_items, filtered_items, removed_items, act_source,
                supply_count>>

titleVars == <<norm_once, norm_twice, norm_upper, token_queries,
               dynamic_query>>

totalVars == <<summary, finding_item, browse_total, finding_total>>

runVars == <<DRY_RUN, SANDBOX_MODE, choice, flags_before, resume_from_index,
             processed_ids, item_no, results, row, touched, resume_file>>
saveVars == <<autosave, frame_len, save_calls>>

vars == <<pc, priceVars, roundVars, medianVars, filterVars, requestVars,
          activeVars,
          titleVars,
          totalVars,
          runVars,
          saveVars>>

None == -1

\* ------------------------------------------------------------------------
\* Program constants (cents)
\* ------------------------------------------------------------------------
PRICE_FLOOR == 150
PERCENT_THRESHOLD == 10
LOWEST_ACTIVE_AVG_K == 5
HIGH_PRICE_THRESHOLD == 499
HIGH_PRICE_FLOOR == 349
MAX_DROP_PERCENT == 40

\* ------------------------------------------------------------------------
\* Bounds of the explored inputs
\* ------------------------------------------------------------------------
MaxActive == 2
MaxSold == 2
MaxValue == 1199
MaxList == 6
MaxItems == 3
MaxReset == 4000
MaxShip == 2
MaxIds == 10
MaxRows == 3
MaxSaves == 3

\* A raw list element: a number of cents, or something float() rejects.
Num(c) == [ok |-> TRUE, c |-> c]
Junk == [ok |-> FALSE, c |-> 0]

Range(s) == {s[i] : i \in 1..Len(s)}

SeqsUpTo(S, n) == UNION {[1..k -> S] : k \in 0..n}

Abs(a) == IF a < 0 THEN -a ELSE a

\* Python sorted() on a list of numbers.
Sorted(s) == SortSeq(s, LAMBDA a, b: a < b)

\* ------------------------------------------------------------------------
\* _human_round
\* ------------------------------------------------------------------------
endings == <<0, 5, 9, 10, 15, 19, 20, 25, 29, 30, 35, 39, 40, 45, 49,
             50, 55, 59, 60, 65, 69, 70, 75, 79, 80, 85, 89, 90, 95, 99>>

\* min(endings, key=lambda e: abs(e - cents)).  Two endings are at the same
\* decimal distance only for cents ending in 7 (x5 and x9); the float
\* subtraction then decides, in either direction.
NearestEnding(cents, tie) ==
    LET d(e) == Abs(e - cents)
        best == {e \in Range(endings) : \A f \in Range(endings) : d(e) <= d(f)}
        lo == CHOOSE e \in best : \A f \in best : e <= f
        hi == CHOOSE e \in best : \A f \in best : e >= f
    IN IF tie = "lo" THEN lo ELSE hi

_human_round_nearest_whole(v, tie) ==
    IF v = None THEN None
    ELSE LET whole == (v + 50) \div 100
             cents == v % 100
         IN whole * 100 + NearestEnding(cents, tie)

_human_round(v, tie) ==
    IF v = None THEN None
    ELSE LET whole == v \div 100
             cents == v % 100
         IN whole * 100 + NearestEnding(cents, tie)

\* ------------------------------------------------------------------------
\* _median
\* ------------------------------------------------------------------------
\* round(x / 2, 2) for a sum x of two cent amounts.  An odd sum ends in half
\* a cent: exactly representable halves (.125 .375 .625 .875) round to even,
\* the others fall to the side of their float representation.
RoundHalf(sum, half) ==
    LET q == sum \div 2
    IN IF sum % 2 = 0 THEN q
       ELSE IF sum % 50 = 25 THEN (IF q % 2 = 0 THEN q ELSE q + 1)
       ELSE IF half = "lo" THEN q ELSE q + 1

_median(values, half) ==
    LET vals == Sorted(SelectSeq(values, LAMBDA v: v # None))
        n == Len(vals)
        mid == n \div 2
    IN IF n = 0 THEN None
       ELSE IF n % 2 = 1 THEN vals[mid + 1]
       ELSE RoundHalf(vals[mid] + vals[mid + 1], half)

\* ------------------------------------------------------------------------
\* get_price_strict
\* ------------------------------------------------------------------------
\* The try/float()/fv > 0 loop that normalizes a raw price list.
CleanKeepZero(raw) ==
    LET kept == SelectSeq(raw, LAMBDA r: r.ok /\ r.c >= 0)
    IN [i \in 1..Len(kept) |-> kept[i].c]

Clean(raw) ==
    LET kept == SelectSeq(raw, LAMBDA r: r.ok /\ r.c > 0)
    IN [i \in 1..Len(kept) |-> kept[i].c]

Min(a, b) == IF a < b THEN a ELSE b

\* act_values[:k] with k = min(LOWEST_ACTIVE_AVG_K, len(act_values))
LowestKNoSlice(sortedVals) == sortedVals

LowestK(sortedVals) ==
    SubSeq(sortedVals, 1, Min(LOWEST_ACTIVE_AVG_K, Len(sortedVals)))

\* round(cp * (1 - MAX_DROP_PERCENT / 100), 2): 0.6 * cp never ends in half
\* a cent, so this is the nearest cent.
MinAllowedByPercent(cp) == (cp * (100 - MAX_DROP_PERCENT) * 2 + 100) \div 200

\* The absolute floor directly after human rounding: hr is the rounded
\* primary median, n the note parts so far.
FloorClampSkipped(hr, n) == [s |-> hr, n |-> n]

FloorClamp(hr, n) ==
    IF hr < PRICE_FLOOR
    THEN [s |-> PRICE_FLOOR, n |-> Append(n, "Floor clamp")]
    ELSE [s |-> hr, n |-> n]

\* The "Price-Safe layer": clamps relative to the current price.  st is the
\* pair of suggestion and note parts after the absolute floor clamp.
PriceSafeNoHighFloor(st, cp) ==
    IF cp = None \/ cp <= 0 THEN st
    ELSE
      LET s1 == IF st.s < MinAllowedByPercent(cp)
                THEN [s |-> MinAllowedByPercent(cp),
                      n |-> Append(st.n, "Drop capped 40% vs current")]
                ELSE st
          s3 == IF s1.s < PRICE_FLOOR
                THEN [s |-> PRICE_FLOOR,
                      n |-> IF "Floor clamp" \in Range(s1.n) THEN s1.n
                            ELSE Append(s1.n, "Floor clamp")]
                ELSE s1
      IN s3

PriceSafe(st, cp) ==
    IF cp = None \/ cp <= 0 THEN st
    ELSE
      LET s1 == IF st.s < MinAllowedByPercent(cp)
                THEN [s |-> MinAllowedByPercent(cp),
                      n |-> Append(st.n, "Drop capped 40% vs current")]
                ELSE st
          s2 == IF cp >= HIGH_PRICE_THRESHOLD /\ s1.s < HIGH_PRICE_FLOOR
                THEN [s |-> HIGH_PRICE_FLOOR,
                      n |-> Append(s1.n, "High-price floor clamp")]
                ELSE s1
          s3 == IF s2.s < PRICE_FLOOR
                THEN [s |-> PRICE_FLOOR,
                      n |-> IF "Floor clamp" \in Range(s2.n) THEN s2.n
                            ELSE Append(s2.n, "Floor clamp")]
                ELSE s2
      IN s3

NoData == [median_sold |-> None, median_active |-> None,
           suggested |-> None, note |-> <<"No data">>]

get_price_strict(act, sld, cp, f) ==
    LET act_values == Sorted(Clean(act))
        lowest_k == LowestK(act_values)
        active_n == Len(lowest_k)
        median_active == IF Len(act_values) > 0
                         THEN _median(lowest_k, f.halfA) ELSE None
        n1 == IF Len(act_values) > 0
              THEN <<"Active(A2,k=" \o ToString(active_n) \o ")">> ELSE <<>>
        sold_values == Sorted(Clean(sld))
        sold_n == Len(sold_values)
        median_sold0 == IF sold_n > 0 THEN _median(sold_values, f.halfS) ELSE None
        n2 == IF sold_n > 0
              THEN Append(n1, "Sold(A2,n=" \o ToString(sold_n) \o ")") ELSE n1
        dropSold == /\ median_sold0 # None
                    /\ median_active # None
                    /\ sold_n <= 3
                    /\ median_sold0 > 2 * median_active
        median_sold == IF dropSold THEN None ELSE median_sold0
        n3 == IF dropSold
              THEN Append(n2, "Sold dropped (>> actives w/low N)") ELSE n2
        primary == IF median_active # None THEN median_active ELSE median_sold
        n4 == Append(n3, IF median_active # None
                         THEN "Active median A2" ELSE "Sold median A2")
        hr == _human_round(primary, f.tie)
        floored == FloorClamp(hr, n4)
        final == PriceSafe(floored, cp)
    IN IF primary = None THEN NoData
       ELSE [median_sold |-> median_sold, median_active |-> median_active,
             suggested |-> final.s, note |-> final.n]

\* ========================================================================
\* Text: Python str operations and the regular expressions of the source,
\* on strings over ASCII letters, digits, space and punctuation.
\* ========================================================================
Ch(s, i) == SubSeq(s, i, i)

\* s[i] or "" outside the string
At(s, i) == IF i >= 1 /\ i <= Len(s) THEN Ch(s, i) ELSE ""

\* The set of the characters of chars
CharSet(chars) == {Ch(chars, k) : k \in 1..Len(chars)}

InStr(c, chars) == c \in CharSet(chars)

IndexIn(chars, c) == CHOOSE k \in 1..Len(chars) : Ch(chars, k) = c

LOWERS == "abcdefghijklmnopqrstuvwxyz"
UPPERS == "ABCDEFGHIJKLMNOPQRSTUVWXYZ"
DIGITS == "0123456789"

DigitSet == CharSet(DIGITS)
LowerSet == CharSet(LOWERS)
UpperSet == CharSet(UPPERS)
ToLowerMap == [c \in UpperSet |-> Ch(LOWERS, IndexIn(UPPERS, c))]
ToUpperMap == [c \in LowerSet |-> Ch(UPPERS, IndexIn(LOWERS, c))]

IsDigit(c) == c \in DigitSet
IsLowerAZ(c) == c \in LowerSet
IsUpperAZ(c) == c \in UpperSet
\* \w
IsWord(c) == IsDigit(c) \/ IsLowerAZ(c) \/ IsUpperAZ(c) \/ c = "_"
\* \s (the explored titles hold no other white space than the blank)
IsSpace(c) == c = " "

LowerCh(c) == IF IsUpperAZ(c) THEN ToLowerMap[c] ELSE c
UpperCh(c) == IF IsLowerAZ(c) THEN ToUpperMap[c] ELSE c

RECURSIVE Lower(_)
\* str.lower()
Lower(s) ==
    IF Len(s) = 0 THEN ""
    ELSE LowerCh(Ch(s, 1)) \o Lower(SubSeq(s, 2, Len(s)))

RECURSIVE Upper(_)
\* str.upper()
Upper(s) ==
    IF Len(s) = 0 THEN ""
    ELSE UpperCh(Ch(s, 1)) \o Upper(SubSeq(s, 2, Len(s)))

\* s[i:].startswith(lit)
StartsAt(s, i, lit) ==
    /\ i >= 1
    /\ i + Len(lit) - 1 <= Len(s)
    /\ SubSeq(s, i, i + Len(lit) - 1) = lit

\* Python "sub in s"
Contains(s, sub) == \E i \in 1..(Len(s) + 1) : StartsAt(s, i, sub)

\* any(term in s for term in terms)
ContainsAny(s, terms) == \E k \in 1..Len(terms) : Contains(s, terms[k])

\* Index of the last character of the longest run, starting at i, of
\* characters that satisfy P; i - 1 when the run is empty.
RunEnd(s, i, P(_)) ==
    CHOOSE j \in (i - 1)..Len(s) :
        /\ (j = Len(s) \/ ~P(Ch(s, j + 1)))
        /\ \A k \in i..j : P(Ch(s, k))

\* \b between the characters i - 1 and i
WordBoundary(s, i) == IsWord(At(s, i - 1)) # IsWord(At(s, i))

RECURSIVE RemoveChars(_, _)
\* s.replace(c, "") for every character c of chars
RemoveChars(s, chars) ==
    IF Len(s) = 0 THEN ""
    ELSE (IF InStr(Ch(s, 1), chars) THEN "" ELSE Ch(s, 1))
         \o RemoveChars(SubSeq(s, 2, Len(s)), chars)

RECURSIVE LStrip(_)
LStrip(s) ==
    IF Len(s) > 0 /\ IsSpace(Ch(s, 1)) THEN LStrip(SubSeq(s, 2, Len(s))) ELSE s

RECURSIVE RStrip(_)
RStrip(s) ==
    IF Len(s) > 0 /\ IsSpace(Ch(s, Len(s)))
    THEN RStrip(SubSeq(s, 1, Len(s) - 1)) ELSE s

\* str.strip()
Strip(s) == LStrip(RStrip(s))

RECURSIVE SplitFrom(_, _)
SplitFrom(s, i) ==
    IF i > Len(s) THEN <<>>
    ELSE IF IsSpace(Ch(s, i)) THEN SplitFrom(s, i + 1)
    ELSE LET j == RunEnd(s, i, LAMBDA c : ~IsSpace(c))
         IN <<SubSeq(s, i, j)>> \o SplitFrom(s, j + 1)

\* str.split()
Split(s) == SplitFrom(s, 1)

RECURSIVE Join(_, _)
\* sep.join(words)
Join(words, sep) ==
    IF Len(words) = 0 THEN ""
    ELSE IF Len(words) = 1 THEN words[1]
    ELSE words[1] \o sep \o Join(Tail(words), sep)

\* re.sub(r"\s+", " ", t).strip()
CollapseSpaces(s) == Join(Split(s), " ")

\* ------------------------------------------------------------------------
\* Regular expressions of the normalization table, as element lists.
\*   lit v   the literal v            opt v    the literal v, optional
\*   star v  [v]*                     plus v   [v]+
\*   nplus v [^v]+                    b        \b
\* ------------------------------------------------------------------------
Lit(v) == [k |-> "lit", v |-> v]
Opt(v) == [k |-> "opt", v |-> v]
Star(v) == [k |-> "star", v |-> CharSet(v)]
Plus(v) == [k |-> "plus", v |-> CharSet(v)]
NPlus(v) == [k |-> "nplus", v |-> CharSet(v)]
B == [k |-> "b", v |-> ""]

NoMatch == -2

RECURSIVE MatchEnd(_, _, _, _)
\* re.match of the elements n.. of pat at index i of s: the index of the
\* last matched character (i - 1 for an empty match) or NoMatch.
MatchEnd(s, i, pat, n) ==
    IF n > Len(pat) THEN i - 1
    ELSE
      LET e == pat[n]
      IN CASE e.k = "lit" ->
                IF StartsAt(s, i, e.v) THEN MatchEnd(s, i + Len(e.v), pat, n + 1)
                ELSE NoMatch
           [] e.k = "opt" ->
                LET with == IF StartsAt(s, i, e.v)
                            THEN MatchEnd(s, i + Len(e.v), pat, n + 1)
                            ELSE NoMatch
                IN IF with # NoMatch THEN with ELSE MatchEnd(s, i, pat, n + 1)
           [] e.k = "star" ->
                MatchEnd(s, RunEnd(s, i, LAMBDA c : c \in e.v) + 1, pat, n + 1)
           [] e.k = "plus" ->
                LET j == RunEnd(s, i, LAMBDA c : c \in e.v)
                IN IF j >= i THEN MatchEnd(s, j + 1, pat, n + 1) ELSE NoMatch
           [] e.k = "nplus" ->
                LET j == RunEnd(s, i, LAMBDA c : c \notin e.v)
                IN IF j >= i THEN MatchEnd(s, j + 1, pat, n + 1) ELSE NoMatch
           [] e.k = "b" ->
                IF WordBoundary(s, i) THEN MatchEnd(s, i, pat, n + 1) ELSE NoMatch

RECURSIVE ReSubFrom(_, _, _, _)
ReSubFrom(s, i, pat, repl) ==
    IF i > Len(s) THEN ""
    ELSE LET e == MatchEnd(s, i, pat, 1)
         IN IF e >= i THEN repl \o ReSubFrom(s, e + 1, pat, repl)
            ELSE Ch(s, i) \o ReSubFrom(s, i + 1, pat, repl)

\* re.sub(pat, repl, s) for a pattern that matches no empty string
ReSub(s, pat, repl) == ReSubFrom(s, 1, pat, repl)

\* ------------------------------------------------------------------------
\* _extract_serial_fragment  (_SERIAL_RE)
\* ------------------------------------------------------------------------
\* \d+\s*/\s*\d+ at index i: index of the last matched character or NoMatch
SerialDigitsEnd(s, i) ==
    LET d1 == RunEnd(s, i, IsDigit)
        w1 == RunEnd(s, d1 + 1, IsSpace)
        w2 == RunEnd(s, w1 + 2, IsSpace)
        d2 == RunEnd(s, w2 + 1, IsDigit)
    IN IF d1 >= i /\ At(s, w1 + 1) = "/" /\ d2 >= w2 + 1 THEN d2 ELSE NoMatch

\* (\d+\s*/\s*\d+|#\s*\d+\s*/\s*\d+) at index i
SerialEnd(s, i) ==
    IF At(s, i) = "#"
    THEN SerialDigitsEnd(s, RunEnd(s, i + 1, IsSpace) + 1)
    ELSE SerialDigitsEnd(s, i)

\* Returns "" for Python None.
_extract_serial_fragment(t) ==
    IF \E i \in 1..Len(t) : SerialEnd(t, i) # NoMatch
    THEN LET i == CHOOSE i \in 1..Len(t) :
                    /\ SerialEnd(t, i) # NoMatch
                    /\ \A j \in 1..(i - 1) : SerialEnd(t, j) = NoMatch
         IN Lower(RemoveChars(SubSeq(t, i, SerialEnd(t, i)), "# "))
    ELSE ""

\* ========================================================================
\* helpers_v10: title parsing helpers
\* ========================================================================
\* The keys of the default TOKEN_RULES dict
TokenRuleKeys ==
    {"remove_words", "player_suffixes", "max_name_word_length",
     "normalization_table"}

\* TOKEN_RULES when token_rules.json is missing.  keys is the set of keys
\* the dict has; a key the dict lacks is read only through .get(), whose
\* default stands in its field.
DefaultTokenRules ==
    [keys |-> TokenRuleKeys,
     remove_words |-> <<>>,
     player_suffixes |-> <<"jr", "sr", "ii", "iii", "iv">>,
     max_name_word_length |-> 4,
     normalization_table |-> <<>>]

\* The built-in part of NORMALIZATION_TABLE, in table order
BuiltinNormalization ==
    << <<(<<B, Lit("sky"), Star(" -"), Lit("box"), B>>), "skybox">>,
       <<(<<B, Lit("e"), Star(" -"), Lit("motion"), B>>), "e motion">>,
       <<(<<B, Lit("topp"), Opt("s"), Lit(" chrome"), B>>), "topps chrome">>,
       <<(<<B, Lit("topp"), Opt("s"), Lit(" finest"), B>>), "topps finest">>,
       <<(<<NPlus("abcdefghijklmnopqrstuvwxyz0123456789")>>), " ">> >>

NORMALIZATION_TABLE ==
    tables.TOKEN_RULES.normalization_table \o BuiltinNormalization

RECURSIVE ApplyTable(_, _, _)
ApplyTable(t, table, n) ==
    IF n > Len(table) THEN t
    ELSE ApplyTable(ReSub(t, table[n][1], table[n][2]), table, n + 1)

normalize_title_global(text) ==
    IF text = "" THEN ""
    ELSE CollapseSpaces(ApplyTable(Lower(text), NORMALIZATION_TABLE, 1))

DigitVal(c) == IndexIn(DIGITS, c) - 1

RECURSIVE ToInt(_)
\* int() of a string of digits
ToInt(s) ==
    IF Len(s) = 0 THEN 0
    ELSE 10 * ToInt(SubSeq(s, 1, Len(s) - 1)) + DigitVal(Ch(s, Len(s)))

\* (19[0-9]{2}|20[0-4][0-9]) at index i
YearAt(s, i) ==
    \/ StartsAt(s, i, "19") /\ IsDigit(At(s, i + 2)) /\ IsDigit(At(s, i + 3))
    \/ StartsAt(s, i, "20") /\ InStr(At(s, i + 2), "01234") /\ IsDigit(At(s, i + 3))

\* re.search on the normalized title clean; 0 for Python None.
YearIn(clean) ==
    IF \E i \in 1..Len(clean) : YearAt(clean, i)
    THEN LET i == CHOOSE i \in 1..Len(clean) :
                    YearAt(clean, i) /\ \A j \in 1..(i - 1) : ~YearAt(clean, j)
         IN ToInt(SubSeq(clean, i, i + 3))
    ELSE 0

extract_year_from_title(t) ==
    IF t = "" THEN 0 ELSE YearIn(normalize_title_global(t))

\* The group ([0-9]{1,4}[a-z]?) at index j, "" when it does not match there
NumGroup(s, j) ==
    LET d == Min(RunEnd(s, j, IsDigit), j + 3)
    IN IF d < j THEN ""
       ELSE IF IsLowerAZ(At(s, d + 1)) THEN SubSeq(s, j, d + 1)
       ELSE SubSeq(s, j, d)

\* (?<!/)\#\s*([0-9]{1,4}[a-z]?) at index i: the group or ""
HashNumAt(s, i) ==
    IF At(s, i) = "#" /\ At(s, i - 1) # "/"
    THEN NumGroup(s, RunEnd(s, i + 1, IsSpace) + 1)
    ELSE ""

\* \bno\.?\s*([0-9]{1,4}[a-z]?) at index i: the group or ""
NoNumAt(s, i) ==
    IF WordBoundary(s, i) /\ StartsAt(s, i, "no")
    THEN LET k == IF At(s, i + 2) = "." THEN i + 3 ELSE i + 2
         IN NumGroup(s, RunEnd(s, k, IsSpace) + 1)
    ELSE ""

\* \bcard\s*#?\s*([0-9]{1,4}[a-z]?) at index i: the group or ""
CardNumAt(s, i) ==
    IF WordBoundary(s, i) /\ StartsAt(s, i, "card")
    THEN LET k == RunEnd(s, i + 4, IsSpace) + 1
             h == IF At(s, k) = "#" THEN k + 1 ELSE k
         IN NumGroup(s, RunEnd(s, h, IsSpace) + 1)
    ELSE ""

\* m.group(1) of re.search with G the group matched at an index, "" if none
FirstGroup(s, G(_, _)) ==
    IF \E i \in 1..Len(s) : G(s, i) # ""
    THEN G(s, CHOOSE i \in 1..Len(s) :
                  G(s, i) # "" /\ \A j \in 1..(i - 1) : G(s, j) = "")
    ELSE ""

\* Returns "" for Python None.
extract_card_number_from_title(t) ==
    LET l == Lower(t)
    IN IF FirstGroup(l, HashNumAt) # "" THEN Upper(FirstGroup(l, HashNumAt))
       ELSE IF FirstGroup(l, NoNumAt) # "" THEN Upper(FirstGroup(l, NoNumAt))
       ELSE IF FirstGroup(l, CardNumAt) # "" THEN Upper(FirstGroup(l, CardNumAt))
       ELSE ""

\* list(dict.fromkeys(tokens))
RECURSIVE Dedupe(_)
Dedupe(seq) ==
    IF Len(seq) = 0 THEN <<>>
    ELSE LET init == Dedupe(SubSeq(seq, 1, Len(seq) - 1))
         IN IF seq[Len(seq)] \in Range(init) THEN init
            ELSE Append(init, seq[Len(seq)])

RECURSIVE Concat(_)
Concat(seqs) == IF Len(seqs) = 0 THEN <<>> ELSE Head(seqs) \o Concat(Tail(seqs))

\* A pattern of SET_PHRASES is a plain phrase: re.search finds it as a
\* substring.
SetTokensIn(norm) ==
    LET hit(ph) == ph.pattern # "" /\ Len(ph.tokens) > 0
                   /\ Contains(norm, ph.pattern)
        sp == tables.SET_PHRASES
    IN Dedupe(Concat([n \in 1..Len(sp) |->
                         IF hit(sp[n]) THEN sp[n].tokens ELSE <<>>]))

extract_set_tokens(t) ==
    IF t = "" THEN <<>> ELSE SetTokensIn(normalize_title_global(t))

RECURSIVE MergeSuffixes(_, _, _)
\* The skip_next loop that glues a generational suffix to the word before it
MergeSuffixes(words, i, suffixes) ==
    IF i > Len(words) THEN <<>>
    ELSE IF i + 1 <= Len(words) /\ words[i + 1] \in Range(suffixes)
    THEN <<words[i] \o " " \o words[i + 1]>> \o MergeSuffixes(words, i + 2, suffixes)
    ELSE <<words[i]>> \o MergeSuffixes(words, i + 1, suffixes)

IsAllDigits(w) == Len(w) > 0 /\ \A k \in 1..Len(w) : IsDigit(Ch(w, k))

\* normalized is the normalized title, set_tokens its set tokens
PlayerTokensIn(normalized, set_tokens) ==
    LET tr == tables.TOKEN_RULES
        drop == Range(tr.remove_words) \cup Range(set_tokens)
        kept == SelectSeq(Split(normalized), LAMBDA w :
                    /\ w \notin drop
                    /\ ~IsAllDigits(w)
                    /\ Len(w) <= tr.max_name_word_length)
    IN MergeSuffixes(kept, 1, tr.player_suffixes)

extract_player_tokens_from_title(t) ==
    PlayerTokensIn(normalize_title_global(t), extract_set_tokens(t))

ParallelCandidates ==
    <<"refractor", "xfractor", "mojo", "wave", "pulsar", "atomic",
      "prizm", "prism",
      "silver", "gold", "blue", "green", "red", "purple", "orange",
      "pink", "black", "white", "aqua", "teal", "lime", "rainbow",
      "holo", "foil">>

ParallelsIn(norm) ==
    Dedupe(SelectSeq(ParallelCandidates, LAMBDA w : Contains(norm, w)))

extract_parallels_from_title(t) ==
    IF t = "" THEN <<>> ELSE ParallelsIn(normalize_title_global(t))

InsertKeywords == <<"insert", "inserts", "insert set", "inser", "subset">>
PromoKeywords == <<"promo", "promotional", "sample", "proof",
                   "test issue", "test card", "preview">>
OddballKeywords == <<"police", "cereal", "hostess", "post", "kelloggs",
                     "dennys", "mcdonald", "izzy", "slurpee", "magazine",
                     "book", "disc", "coin", "sticker", "food issue">>

detect_insert_flag(t) ==
    t # "" /\ ContainsAny(normalize_title_global(t), InsertKeywords)
detect_promo_flag(t) ==
    t # "" /\ ContainsAny(normalize_title_global(t), PromoKeywords)
detect_oddball_flag(t) ==
    t # "" /\ ContainsAny(normalize_title_global(t), OddballKeywords)

\* ========================================================================
\* pricing_engine: card signature and strict matching
\* ========================================================================
\* _canonicalize_phrase_text
HyphenRun == <<Plus("-_/")>>

_canonicalize_phrase_text(t) ==
    Strip(CollapseSpaces(ReSub(Lower(t), HyphenRun, " ")))

\* SET_PHRASE_INDEX.get(first): the token lists of the loaded phrases that
\* start with first, longest first (list.sort is stable).
PhraseTokenLists ==
    LET ph == tables.SET_PHRASE_LIST
        toks == [n \in 1..Len(ph) |-> Split(_canonicalize_phrase_text(Strip(ph[n])))]
    IN SelectSeq(toks, LAMBDA tk : Len(tk) > 0)

IndexCandidates(lists, first) ==
    LET mine == SelectSeq(lists, LAMBDA tk : tk[1] = first)
    IN SortSeq(mine, LAMBDA a, b : Len(a) > Len(b))

RECURSIVE DetectFrom(_, _, _)
\* The while loop of detect_set_phrases_from_title over the title tokens;
\* lists holds the token lists of SET_PHRASE_INDEX
DetectFrom(tokens, i, lists) ==
    IF i > Len(tokens) THEN <<>>
    ELSE
      LET cands == IndexCandidates(lists, tokens[i])
          fits(c) == i + Len(c) - 1 <= Len(tokens)
                     /\ SubSeq(tokens, i, i + Len(c) - 1) = c
          hits == SelectSeq(cands, fits)
      IN IF Len(hits) > 0
         THEN <<Join(hits[1], " ")>> \o DetectFrom(tokens, i + Len(hits[1]), lists)
         ELSE DetectFrom(tokens, i + 1, lists)

detect_set_phrases_from_title(t) ==
    LET lists == PhraseTokenLists
    IN IF t = "" \/ Len(lists) = 0 THEN <<>>
       ELSE DetectFrom(Split(_canonicalize_phrase_text(t)), 1, lists)

\* The sort key of extract_set_phrase_from_title: (number of tokens, length)
LongerPhrase(a, b) ==
    \/ Len(Split(a)) > Len(Split(b))
    \/ Len(Split(a)) = Len(Split(b)) /\ Len(a) > Len(b)

\* max(phrases, key=..., default=None): the first phrase with the greatest
\* key; "" for None
MaxPhrase(phrases) ==
    IF Len(phrases) = 0 THEN ""
    ELSE phrases[CHOOSE n \in 1..Len(phrases) :
                   /\ \A m \in 1..Len(phrases) : ~LongerPhrase(phrases[m], phrases[n])
                   /\ \A m \in 1..(n - 1) : LongerPhrase(phrases[n], phrases[m])]

extract_set_phrase_from_title(t) ==
    MaxPhrase(detect_set_phrases_from_title(t))

\* The first entry of BRAND_FAMILIES whose pattern occurs in the normalized
\* title gives the brand family; "" for None.
BrandFamilyOf(norm_title) ==
    LET lowered == Lower(norm_title)
        bf == tables.BRAND_FAMILIES
        ok(e) == /\ Strip(Lower(e.pattern)) # ""
                 /\ Strip(Lower(e.canonical)) # ""
                 /\ Contains(lowered, Strip(Lower(e.pattern)))
        hits == SelectSeq(bf, ok)
    IN IF Len(hits) > 0 THEN Strip(Lower(hits[1].canonical)) ELSE ""

\* The empty dict {}: no key, every .get() gives None
EmptySig ==
    [keys |-> 0, year |-> 0, card_num |-> "", player_tokens |-> <<>>,
     set_tokens |-> <<>>, parallels |-> <<>>,
     is_insert |-> FALSE, is_promo |-> FALSE, is_oddball |-> FALSE,
     brand_family |-> "", set_phrase |-> ""]

\* The dict built by _extract_card_signature_from_title for a non-empty
\* title t whose normalize_title_global is norm_title.  Every helper of
\* helpers_v10 normalizes the title it is given; the helpers' bodies work
\* here on the text normalized once.
SignatureFields(t, norm_title) ==
    [keys |-> 10,
     year |-> YearIn(norm_title),
     card_num |-> extract_card_number_from_title(t),
     player_tokens |-> PlayerTokensIn(norm_title, SetTokensIn(norm_title)),
     set_tokens |-> SetTokensIn(norm_title),
     parallels |-> ParallelsIn(norm_title),
     is_insert |-> ContainsAny(norm_title, InsertKeywords),
     is_promo |-> ContainsAny(norm_title, PromoKeywords),
     is_oddball |-> ContainsAny(norm_title, OddballKeywords),
     brand_family |-> BrandFamilyOf(norm_title),
     set_phrase |-> extract_set_phrase_from_title(t)]

_extract_card_signature_from_title(t) ==
    IF t = "" THEN EmptySig
    ELSE SignatureFields(t, normalize_title_global(t))

\* if s_par and c_par and not s_par.issubset(c_par): return False
ParallelsReject(s_par, c_par) ==
    s_par # {} /\ c_par # {} /\ ~(s_par \subseteq c_par)

\* if sy and cy and sy != cy (year, card_num, brand_family); none is the
\* model's value for Python's None
FieldMismatchSubjectOnly(s, c, none) ==
    s # none /\ s # c

FieldMismatch(s, c, none) ==
    s # none /\ c # none /\ s # c

\* The stage of _titles_match_strict that returns False for the subject
\* signature ssig and the comp's signature csig, "" when it returns True.
SignatureRejectStage(ssig, csig) ==
       IF ssig.keys = 0 THEN ""
       ELSE IF csig.keys = 0 THEN "comp_sig"
       ELSE IF FieldMismatch(ssig.year, csig.year, 0) THEN "year"
       ELSE IF FieldMismatch(ssig.card_num, csig.card_num, "") THEN "card_num"
       ELSE IF FieldMismatch(ssig.brand_family, csig.brand_family, "")
            THEN "brand_family"
       ELSE IF ssig.set_phrase # ""
               /\ (\/ csig.set_phrase = ""
                   \/ normalize_title_global(ssig.set_phrase)
                        # normalize_title_global(csig.set_phrase))
            THEN "set_phrase"
       ELSE IF ParallelsReject(Range(ssig.parallels), Range(csig.parallels))
            THEN "parallels"
       ELSE IF \/ ssig.is_insert # csig.is_insert
               \/ ssig.is_promo # csig.is_promo
               \/ ssig.is_oddball # csig.is_oddball
            THEN "flags"
       ELSE IF /\ Range(ssig.player_tokens) # {}
               /\ Range(csig.player_tokens) # {}
               /\ Range(ssig.player_tokens) \cap Range(csig.player_tokens) = {}
            THEN "players"
       ELSE ""

StrictRejectStage(ssig, comp_title) ==
    SignatureRejectStage(ssig, _extract_card_signature_from_title(comp_title))

_titles_match_strict(ssig, comp_title, comp_price) ==
    StrictRejectStage(ssig, comp_title) = ""

\* ========================================================================
\* helpers_v10: safe hybrid filter
\* ========================================================================
HARD_EXCLUDE ==
    <<"refractor", "xfractor", "pulsar", "mojo", "wave",
      "cracked ice", "atomic", "prism", "prizm",
      "serial", "#/", "/", "foilboard",
      "psa", "bgs", "sgc", "graded",
      "lot", "set of", "bundle", "collection">>

SOFT_EXCLUDE ==
    <<"gold", "black", "blue", "green", "red", "silver",
      "rainbow", "holo", "foil", "purple", "orange",
      "pink", "lime", "aqua", "teal">>

is_serial_numbered(t) == Contains(t, "/") \/ Contains(t, "#/")

comp_matches_parallel_type(user_title, comp_title) ==
    LET u == Lower(user_title)
        c == Lower(comp_title)
        soft == Range(SOFT_EXCLUDE)
    IN IF Contains(u, "chrome")
       THEN /\ Contains(c, "chrome")
            /\ \A w \in soft : ~(Contains(c, w) /\ ~Contains(u, w))
            /\ ~(Contains(c, "refractor") /\ ~Contains(u, "refractor"))
       ELSE /\ ~Contains(c, "chrome")
            /\ ~(~ContainsAny(u, SOFT_EXCLUDE) /\ ContainsAny(c, SOFT_EXCLUDE))
            /\ ~(is_serial_numbered(c) /\ ~is_serial_numbered(u))
            /\ \A w \in soft : ~(Contains(u, w) /\ ~Contains(c, w))

BASE_CEILING == 299
CHROME_CEILING == 399
GLOBAL_CEILING == 10000

comp_price_sane(user_title, comp_price) ==
    LET t == Lower(user_title)
        is_base == /\ ~Contains(t, "chrome")
                   /\ ~Contains(t, "refractor")
                   /\ ~ContainsAny(t, SOFT_EXCLUDE)
        plain_chrome == /\ Contains(t, "chrome")
                        /\ ~Contains(t, "refractor")
                        /\ ~ContainsAny(t, SOFT_EXCLUDE)
    IN /\ ~(is_base /\ comp_price > BASE_CEILING)
       /\ ~(plain_chrome /\ comp_price > CHROME_CEILING)
       /\ ~(comp_price > GLOBAL_CEILING)

safe_hybrid_filter(user_title, comp_title, comp_price) ==
    LET t1 == Lower(user_title)
        t2 == Lower(comp_title)
    IN /\ ~(/\ ContainsAny(t2, HARD_EXCLUDE)
            /\ ~(/\ Contains(t2, "refractor")
                 /\ Contains(t1, "chrome")
                 /\ Contains(t1, "refractor")))
       /\ comp_matches_parallel_type(t1, t2)
       /\ comp_price_sane(t1, comp_price)

\* ========================================================================
\* pricing_engine: _fetch_prices_for_query
\* ========================================================================
\* normalize_title for a title that is a string
normalize_title(t) == Strip(t)

GradedTerms == <<"PSA", "BGS", "SGC", "CGC", "CSG", "GMA", "BCCG">>

_is_graded(t) == t # "" /\ ContainsAny(Upper(t), GradedTerms)

\* An item summary: price is None when the item has no "price" key, the
\* shipping options are their costs.  TotalPriceNoCap is the function
\* without its test total > 100.0.
TotalPriceNoCap(it) ==
    IF it.price = None THEN None
    ELSE IF it.price < 99 THEN None
    ELSE LET costs == it.shippingOptions
             ship == IF Len(costs) > 0
                     THEN CHOOSE c \in Range(costs) : \A d \in Range(costs) : c <= d
                     ELSE 0
             total == it.price + ship
         IN IF total < PRICE_FLOOR THEN None ELSE total

_extract_total_price(it) ==
    IF it.price = None THEN None
    ELSE IF it.price < 99 THEN None
    ELSE LET costs == it.shippingOptions
             ship == IF Len(costs) > 0
                     THEN CHOOSE c \in Range(costs) : \A d \in Range(costs) : c <= d
                     ELSE 0
             total == it.price + ship
         IN IF total < PRICE_FLOOR \/ total > 10000 THEN None ELSE total

\* A Finding item: price is currentPrice.__value__, None when absent
\* (_safe_float gives 0.0), shipping is shippingServiceCost.__value__, None
\* when absent.
_extract_total_price_finding(it) ==
    LET price == IF it.price = None THEN 0 ELSE it.price
        ship == IF it.shipping = None THEN 0 ELSE it.shipping
        total == price + ship
    IN IF price < 99 THEN None
       ELSE IF total < PRICE_FLOOR \/ total > 10000 THEN None ELSE total

bad_condition_terms ==
    <<"poor", "fair", "filler", "filler card", "crease", "creased",
      "damage", "damaged", "bent", "writing", "pen", "marker",
      "tape", "miscut", "off-center", "oc", "kid card">>

lot_like_terms ==
    <<" lot", "lot of", "lots", "complete set", "factory set", "team set",
      "set of",
      "sealed box", "hobby box", "blaster box", "mega box", "hanger box",
      "value box",
      "cello box", "rack pack", "value pack", "fat pack", "jumbo box",
      "case break", "player break", "team break", "group break", "box break",
      "box", "case">>

\* \b\d+\s*(card|cards)\b at index i
CardCountAt(s, i) ==
    LET d == RunEnd(s, i, IsDigit)
        k == RunEnd(s, d + 1, IsSpace) + 1
    IN /\ WordBoundary(s, i)
       /\ d >= i
       /\ StartsAt(s, k, "card")
       /\ \/ WordBoundary(s, k + 4)
          \/ At(s, k + 4) = "s" /\ WordBoundary(s, k + 5)

\* \bx\d{1,3}\b at index i
MultiplierAt(s, i) ==
    LET d == RunEnd(s, i + 1, IsDigit)
    IN /\ WordBoundary(s, i)
       /\ At(s, i) = "x"
       /\ d >= i + 1 /\ d <= i + 3
       /\ WordBoundary(s, d + 1)

\* if subject_serial and comp_serial and comp_serial != subject_serial
SerialMismatchAnySubject(s_serial, c_serial) ==
    c_serial # "" /\ c_serial # s_serial

SerialMismatch(s_serial, c_serial) ==
    s_serial # "" /\ c_serial # "" /\ c_serial # s_serial

\* if price >= 10: if not safe_hybrid_filter(user_title, title_it, price)
HybridRejectsAnyPrice(user_title, title_it, price) ==
    ~safe_hybrid_filter(user_title, title_it, price)

HybridRejects(user_title, title_it, price) ==
    price >= 1000 /\ ~safe_hybrid_filter(user_title, title_it, price)

\* The stage of the loop body that drops the item ("continue"), "" when the
\* item's price is appended to totals.  The special_terms loop of the sold
\* branch drops nothing: its continue belongs to the inner for.
FetchRejectStage(it, base_title, ssig, s_serial, is_sold) ==
    LET title_it == normalize_title(it.title)
        lower_title == Lower(title_it)
        opts == Range(it.buyingOptions)
        web_url == Lower(it.itemWebUrl)
        price == _extract_total_price(it)
        comp_serial == _extract_serial_fragment(title_it)
        user_title == IF base_title # "" THEN base_title ELSE title_it
    IN IF _is_graded(title_it) THEN "graded"
       ELSE IF "FIXED_PRICE" \notin opts \/ "AUCTION" \in opts
            THEN "buyingOptions"
       ELSE IF it.itemGroupType # "" THEN "itemGroupType"
       ELSE IF ContainsAny(web_url, <<"variation", "auction", "bid=", "bids=">>)
            THEN "itemWebUrl"
       ELSE IF \/ ContainsAny(lower_title, lot_like_terms)
               \/ \E i \in 1..Len(lower_title) : CardCountAt(lower_title, i)
               \/ \E i \in 1..Len(lower_title) : MultiplierAt(lower_title, i)
            THEN "lot"
       ELSE IF ContainsAny(lower_title, bad_condition_terms) THEN "condition"
       ELSE IF price = None THEN "price"
       ELSE IF SerialMismatch(s_serial, comp_serial) THEN "serial"
       ELSE IF ssig.keys # None /\ ~_titles_match_strict(ssig, title_it, price)
            THEN "strict"
       ELSE IF is_sold /\ price > 10000 THEN "sold"
       ELSE IF HybridRejects(user_title, title_it, price) THEN "hybrid"
       ELSE ""

\* ========================================================================
\* pricing_engine: _request and _handle_rate_limit_and_token
\* ========================================================================
MAX_SINGLE_COOLDOWN_SEC == 3600

\* A response of the backend: the HTTP status, whether its text carries one
\* of the token-error phrases, and the seconds _parse_reset_header computes
\* from the X-EBAY-C-RESET-TIME header (None without a parsable header).
\* kind "exception" stands for requests.request raising (timeout, network).
Response(status, token_text, reset_in) ==
    [kind |-> "response", status |-> status, token_text |-> token_text,
     reset_in |-> reset_in]

RequestException ==
    [kind |-> "exception", status |-> 0, token_text |-> FALSE, reset_in |-> None]

\* _request returning (None, None)
NoResponse ==
    [kind |-> "none", status |-> 0, token_text |-> FALSE, reset_in |-> None]

_token_expired(r) ==
    r.status \in {401, 403} /\ r.token_text

Max(a, b) == IF a > b THEN a ELSE b

\* time.sleep(min(max(60, reset_in), MAX_SINGLE_COOLDOWN_SEC)) and
\* time.sleep(300): the sleep of one _handle_rate_limit_and_token call,
\* 0 when it does not sleep
CooldownOf(r) ==
    IF r.status # 429 THEN 0
    ELSE IF r.reset_in # None
         THEN Min(Max(60, r.reset_in), MAX_SINGLE_COOLDOWN_SEC)
         ELSE 300

\* The value _handle_rate_limit_and_token returns when it does not raise:
\* True only for a 429 without a parsable reset header
_handle_rate_limit_and_token(r) ==
    r.status = 429 /\ r.reset_in = None

\* ========================================================================
\* helpers_v10: the active cache
\* ========================================================================
\* active_cache is None (present FALSE) or a dict title -> entry; an entry
\* is its key, its "prices" and the age in minutes of its "ts".
ACTIVE_CACHE_TTL_MIN == 720

NoCache == [present |-> FALSE, entries |-> {}]
Cache(entries) == [present |-> TRUE, entries |-> entries]
CacheEntry(key, prices, age) == [key |-> key, prices |-> prices, age |-> age]

\* if age_min > ttl_minutes: return [], False
CacheStaleFromTTL(age, ttl_minutes) == age >= ttl_minutes

CacheStale(age, ttl_minutes) == age > ttl_minutes

CacheMiss == [prices |-> <<>>, from_cache |-> FALSE]

CacheLookup(entry, ttl_minutes) ==
    IF CacheStale(entry.age, ttl_minutes) THEN CacheMiss
    ELSE [prices |-> entry.prices, from_cache |-> TRUE]

maybe_use_active_cache(t, cache, ttl_minutes) ==
    IF \A e \in cache.entries : e.key # t THEN CacheMiss
    ELSE CacheLookup(CHOOSE e \in cache.entries : e.key = t, ttl_minutes)

update_active_cache(t, prices, cache) ==
    IF prices = <<>> THEN cache
    ELSE Cache({e \in cache.entries : e.key # t}
               \cup {CacheEntry(t, prices, 0)})

\* ========================================================================
\* pricing_engine: search_active and its two fetchers
\* ========================================================================
RECURSIVE IntText(_)
\* str(n) of a non-negative integer
IntText(n) ==
    IF n < 10 THEN Ch(DIGITS, n + 1)
    ELSE IntText(n \div 10) \o Ch(DIGITS, (n % 10) + 1)

NegativeTerms == <<"-lot", "-lots", "-factory", "-break", "-case", "-sealed">>

\* The exception that ends _extract_card_signature_from_title(t), "" when
\* it returns; norm_title is normalize_title_global(t).  The helper
\* extract_player_tokens_from_title subscripts TOKEN_RULES["remove_words"]
\* for the first word, calls extract_set_tokens, whose loop calls
\* phrase.get on every entry of SET_PHRASES, and subscripts
\* TOKEN_RULES["player_suffixes"] once two words are left.
SignatureException(t, norm_title) ==
    LET tr == tables.TOKEN_RULES
        words == Split(norm_title)
    IN IF t = "" THEN ""
       ELSE IF words # <<>> /\ "remove_words" \notin tr.keys
       THEN "KeyError"
       ELSE IF tables.SET_PHRASES # <<>> /\ tables.SET_PHRASES_ENTRY = "str"
       THEN "AttributeError"
       ELSE IF "player_suffixes" \notin tr.keys
               /\ Len(SelectSeq(words, LAMBDA w :
                          /\ w \notin Range(tr.remove_words)
                          /\ ~IsAllDigits(w)
                          /\ Len(w) <= tr.max_name_word_length)) >= 2
       THEN "KeyError"
       ELSE ""

\* The list queries of _build_token_based_queries before the dedupe loop.
\* year is 0 and card_num is "" for None; player is the joined player
\* tokens.
PriorityQueries(year, card_num, player, core_phrase, norm_title) ==
    (IF year # 0 /\ card_num # "" /\ player # ""
     THEN << IntText(year) \o " " \o core_phrase \o " #" \o card_num
                 \o " " \o player,
             IntText(year) \o " " \o core_phrase \o " " \o card_num
                 \o " " \o player >>
     ELSE <<>>)
    \o (IF card_num # "" /\ player # ""
        THEN << core_phrase \o " #" \o card_num \o " " \o player,
                player \o " " \o core_phrase \o " #" \o card_num >>
        ELSE <<>>)
    \o (IF year # 0 /\ player # ""
        THEN << IntText(year) \o " " \o core_phrase \o " " \o player >>
        ELSE <<>>)
    \o (IF year # 0 THEN << IntText(year) \o " " \o core_phrase >> ELSE <<>>)
    \o (IF player # "" THEN << core_phrase \o " " \o player >> ELSE <<>>)
    \o (IF norm_title # "" THEN <<norm_title>> ELSE <<>>)

\* qn = normalize_title_global(q) for every q of queries
NormalizeAll(queries) ==
    [n \in 1..Len(queries) |-> normalize_title_global(queries[n])]

RECURSIVE KeepLast(_)
KeepLast(normalized) ==
    IF normalized = <<>> THEN <<>>
    ELSE IF normalized[1] = ""
            \/ normalized[1] \in Range(Tail(normalized))
         THEN KeepLast(Tail(normalized))
         ELSE <<normalized[1]>> \o KeepLast(Tail(normalized))

RECURSIVE KeepFirst(_)
\* The seen/out loop: an empty qn and a qn already seen are skipped
KeepFirst(normalized) ==
    IF normalized = <<>> THEN <<>>
    ELSE IF normalized[Len(normalized)] = ""
            \/ normalized[Len(normalized)]
                 \in Range(SubSeq(normalized, 1, Len(normalized) - 1))
         THEN KeepFirst(SubSeq(normalized, 1, Len(normalized) - 1))
         ELSE Append(KeepFirst(SubSeq(normalized, 1, Len(normalized) - 1)),
                     normalized[Len(normalized)])

\* core_phrase: the set phrase or, as the signature has neither
\* family_tokens nor brand_tokens, the normalized title; normalized again.
CorePhrase(sig, norm_title) ==
    normalize_title_global(IF sig.set_phrase # "" THEN sig.set_phrase
                           ELSE norm_title)

\* _build_token_based_queries for the signature sig of the title and its
\* normalization norm_title
TokenQueriesOf(sig, norm_title) ==
    IF sig.keys = 0
    THEN (IF norm_title # "" THEN <<norm_title>> ELSE <<>>)
    ELSE KeepFirst(NormalizeAll(
             PriorityQueries(sig.year, sig.card_num,
                             Strip(Join(sig.player_tokens, " ")),
                             CorePhrase(sig, norm_title), norm_title)))

_build_token_based_queries(t) ==
    TokenQueriesOf(_extract_card_signature_from_title(t),
                   normalize_title_global(t))

\* " ".join([base] + negative_terms).strip() for the candidates of
\* _build_token_based_queries and the normalized title.  The appended
\* negative terms make the query non-empty for every title.
DynamicQueryOf(base_candidates, norm_title) ==
    Strip(Join(<< IF Len(base_candidates) > 0 THEN base_candidates[1]
                  ELSE norm_title >> \o NegativeTerms, " "))

_build_dynamic_query(t) ==
    DynamicQueryOf(_build_token_based_queries(t), normalize_title_global(t))

FallbackFilters == " -lot -lots -factory -break -case -sealed"

RECURSIVE DedupeQueries(_)
\* the dedupe loop: the first query of each lowercased, stripped text,
\* stripped
DedupeQueries(queries) ==
    IF Len(queries) = 0 THEN <<>>
    ELSE IF \E n \in 1..(Len(queries) - 1) :
                Strip(Lower(queries[n])) = Strip(Lower(queries[Len(queries)]))
         THEN DedupeQueries(SubSeq(queries, 1, Len(queries) - 1))
         ELSE Append(DedupeQueries(SubSeq(queries, 1, Len(queries) - 1)),
                     Strip(queries[Len(queries)]))

FallbackQueries(norm, year, player_tokens, set_tokens) ==
    DedupeQueries(
        (IF year # 0
         THEN <<IntText(year) \o " " \o norm \o FallbackFilters>> ELSE <<>>)
        \o (IF player_tokens # <<>> /\ set_tokens # <<>>
            THEN <<Join(player_tokens, " ") \o " " \o Join(set_tokens, " ")
                       \o FallbackFilters>>
            ELSE <<>>)
        \o <<norm \o FallbackFilters>>)

FallbackQueriesOf(norm) ==
    FallbackQueries(norm, extract_year_from_title(norm),
                    extract_player_tokens_from_title(norm),
                    extract_set_tokens(norm))

_build_active_fallback_queries(t) ==
    IF Strip(t) = "" THEN <<>>
    ELSE FallbackQueriesOf(normalize_title_global(Strip(t)))

\* browse_queries and finding_queries of search_active for the stripped
\* title t, whose _build_dynamic_query is dynamic
BrowseQueries(t, dynamic) ==
    <<dynamic>> \o _build_active_fallback_queries(t)
    \o (IF t # "" THEN <<t>> ELSE <<>>)

FindingQueries(t, dynamic) ==
    <<dynamic>> \o (IF t # "" THEN <<t>> ELSE <<>>)

\* What a backend gives for one call: the response (or the exception of the
\* HTTP call), whether its body is JSON of the expected shape, and the items
\* of the body.
Answer(r, json, payload) == [resp |-> r, json |-> json, payload |-> payload]

\* The outcome of a fetcher call: the list it returns, or the exception it
\* ends with
Fetched(comps) == [comps |-> comps, exc |-> ""]
Raising(exc) == [comps |-> <<>>, exc |-> exc]

\* requests.get in try/except returning []; every status but 200 returns [],
\* 401 and 403 included; r.json() is outside the try; after it the
\* function reads the global ORIGINAL_TITLE, which no module defines.
_fetch_active_items_browse_for_query(a) ==
    IF a.resp.kind = "exception" THEN Fetched(<<>>)
    ELSE IF a.resp.status # 200 THEN Fetched(<<>>)
    ELSE IF ~a.json THEN Raising("JSONDecodeError")
    ELSE Raising("NameError")

\* _request (one HTTP request: the responses explored here are no 429), then
\* r.json() outside any try; for the first item the loop calls
\* _extract_total_price_from_finding, which no module defines.
_fetch_active_items_finding_for_query(a) ==
    IF a.resp.kind = "exception" THEN Fetched(<<>>)
    ELSE IF _token_expired(a.resp) THEN Raising("SystemExit")
    ELSE IF a.resp.status # 200 THEN Fetched(<<>>)
    ELSE IF ~a.json THEN Raising("JSONDecodeError")
    ELSE IF a.payload = <<>> THEN Fetched(<<>>)
    ELSE Raising("NameError")

\* key = (it["title"].lower().strip(), it["total"])
MergeKey(it) == <<Strip(Lower(it.title)), it.total>>

MergeKeys(merged) == {MergeKey(merged[n]) : n \in 1..Len(merged)}

RECURSIVE MergeItems(_, _)
\* One merge loop of search_active: seen_keys holds the keys of merged_items
MergeItems(merged, comps) ==
    IF comps = <<>> THEN merged
    ELSE IF MergeKey(Head(comps)) \in MergeKeys(merged)
         THEN MergeItems(merged, Tail(comps))
         ELSE MergeItems(Append(merged, Head(comps)), Tail(comps))

RECURSIVE StrictLoop(_, _, _, _)
\* The strict filtering loop from comp n on.  A comp that fails the serial
\* check is removed with that reason; for any other comp the loop calls
\* _titles_match_strict(subject_sig, comp_sig) without its third required
\* argument comp_price, which raises TypeError (subject_sig is never None).
StrictLoop(s_serial, merged, n, removed_so_far) ==
    IF n > Len(merged)
    THEN [filtered |-> <<>>, removed_items |-> removed_so_far, exc |-> ""]
    ELSE IF SerialMismatch(s_serial, _extract_serial_fragment(merged[n].title))
    THEN StrictLoop(s_serial, merged, n + 1,
                    Append(removed_so_far,
                           [title |-> merged[n].title, total |-> merged[n].total,
                            reason |-> "Serial mismatch"]))
    ELSE [filtered |-> <<>>, removed_items |-> removed_so_far,
          exc |-> "TypeError"]

StrictLayer(t, merged) == StrictLoop(_extract_serial_fragment(t), merged, 1, <<>>)

\* ========================================================================
\* pricing_engine: main menu, batch run, process_item and autosave
\* ========================================================================
\* Menu choice "0": DRY_RUN = not DRY_RUN; a change from TEST to LIVE with
\* the sandbox on turns the sandbox off.
ToggleLiveKeepSandbox(flags) ==
    [flags EXCEPT !.DRY_RUN = ~flags.DRY_RUN]

ToggleLive(flags) ==
    [DRY_RUN |-> ~flags.DRY_RUN,
     SANDBOX_MODE |-> IF flags.DRY_RUN /\ flags.SANDBOX_MODE THEN FALSE
                      ELSE flags.SANDBOX_MODE]

\* Menu choice "S": refused in LIVE mode, a toggle in TEST mode
ToggleSandbox(flags) ==
    IF ~flags.DRY_RUN THEN flags
    ELSE [flags EXCEPT !.SANDBOX_MODE = ~flags.SANDBOX_MODE]

\* The test of process_item before update_ebay_price:
\*   not DRY_RUN and suggested and current_price (cur_price), then
\*   diff_abs >= 0.30 or diff_pct >= PERCENT_THRESHOLD / 100.
\* The amounts are floats: a difference of exactly 0.30 and a ratio of
\* exactly 10% fall on either side of the comparison, as the flags
\* abs_tie and pct_tie say.
SendsUpdateAnyDiff(dry_run, suggested, cur_price, abs_tie, pct_tie) ==
    /\ ~dry_run
    /\ suggested # None /\ suggested # 0
    /\ cur_price # None /\ cur_price # 0

SendsUpdate(dry_run, suggested, cur_price, abs_tie, pct_tie) ==
    /\ ~dry_run
    /\ suggested # None /\ suggested # 0
    /\ cur_price # None /\ cur_price # 0
    /\ LET diff_abs == Abs(suggested - cur_price)
       IN \/ diff_abs > 30
          \/ diff_abs = 30 /\ abs_tie
          \/ /\ cur_price > 0
             /\ \/ diff_abs * 100 > PERCENT_THRESHOLD * cur_price
                \/ /\ diff_abs * 100 = PERCENT_THRESHOLD * cur_price
                   /\ pct_tie

\* The two "continue" tests at the head of the main loop
SkipsInSandbox(sandbox, i, resume_index, processed) ==
    \/ resume_index # None /\ i < resume_index
    \/ i \in processed

Skips(sandbox, i, resume_index, processed) ==
    /\ ~sandbox
    /\ \/ resume_index # None /\ i < resume_index
       \/ i \in processed

\* A file of the autosave folder
NoFile == [exists |-> FALSE, readable |-> FALSE, rows |-> 0]
CsvFile(n) == [exists |-> TRUE, readable |-> TRUE, rows |-> n]
BrokenFile == [exists |-> TRUE, readable |-> FALSE, rows |-> 0]

EmptyFolder == [base |-> NoFile, tmp |-> "absent", fallbacks |-> 0]

\* "Do not overwrite if existing autosave has MORE rows": old_len is None
\* for a file pd.read_csv cannot read
OverwritesAlways(file, new_len) == FALSE

KeepsExisting(file, new_len) ==
    file.exists /\ file.readable /\ file.rows > new_len

\* The first half of _autosave_write_atomic up to df.to_csv(tmp_path):
\* the folder after it and whether os.replace is reached.  An empty
\* frame has no column item_id and ends in "Autosave failed"; to_csv
\* fails when env is "failed".
WriteTmp(folder, new_len, env) ==
    IF KeepsExisting(folder.base, new_len)
    THEN [folder |-> folder, replace |-> FALSE]
    ELSE IF new_len = 0
    THEN [folder |-> folder, replace |-> FALSE]
    ELSE IF env = "failed"
    THEN [folder |-> [folder EXCEPT !.tmp = "partial"], replace |-> FALSE]
    ELSE [folder |-> [folder EXCEPT !.tmp = "complete"], replace |-> TRUE]

\* os.replace(tmp_path, base_path); on PermissionError the .tmp file is
\* removed and a timestamped fallback file is written.
ReplaceBase(folder, new_len, env) ==
    IF env = "locked"
    THEN [folder EXCEPT !.tmp = "absent", !.fallbacks = folder.fallbacks + 1]
    ELSE [folder EXCEPT !.tmp = "absent", !.base = CsvFile(new_len)]

\* Both halves in one call
_autosave_write_atomic(folder, new_len, env) ==
    IF WriteTmp(folder, new_len, env).replace
    THEN ReplaceBase(WriteTmp(folder, new_len, env).folder, new_len, env)
    ELSE WriteTmp(folder, new_len, env).folder

\* ------------------------------------------------------------------------
\* Explored inputs
\* ------------------------------------------------------------------------
FP == [halfA : {"lo", "hi"}, halfS : {"lo", "hi"}, tie : {"lo", "hi"}]

ActivePool == {Junk, Num(0), Num(100), Num(200), Num(257)}
SoldPool == {Junk, Num(150), Num(900)}
CurrentPool == {None, 0, 252, 500, 582, 2000}
MedianPool == {100, 200, 300}
ScenarioPrices == {200, 225, 250, 275, 300, 325}
ScenarioCurrent == {None, 500}

RoundIdle == value = 0 /\ rounded = None /\ rounded2 = None
PriceIdle == /\ active_totals = <<>> /\ sold_totals = <<>>
             /\ current_price = None /\ ret = NoData
MedianIdle == extra = None /\ ret2 = NoData

\* The globals when none of the JSON rule files exists
MissingTables ==
    [TOKEN_RULES |-> DefaultTokenRules, SET_PHRASES |-> <<>>,
     SET_PHRASES_ENTRY |-> "dict",
     BRAND_FAMILIES |-> <<>>, SET_PHRASE_LIST |-> <<>>]

\* The globals after loading an example set of rule files
LoadedTables ==
    [TOKEN_RULES |->
        [keys |-> TokenRuleKeys,
         remove_words |-> <<"base", "rc">>,
         player_suffixes |-> <<"jr", "sr", "ii", "iii", "iv">>,
         max_name_word_length |-> 20,
         normalization_table |-> <<>>],
     SET_PHRASES |->
        << [pattern |-> "topps chrome", tokens |-> <<"topps", "chrome">>],
           [pattern |-> "skybox", tokens |-> <<"skybox">>],
           [pattern |-> "skybox e motion", tokens |-> <<"skybox", "e", "motion">>] >>,
     SET_PHRASES_ENTRY |-> "dict",
     BRAND_FAMILIES |->
        << [pattern |-> "topps chrome", canonical |-> "topps chrome"],
           [pattern |-> " Prizm ", canonical |-> "Panini Prizm"],
           [pattern |-> "skybox", canonical |-> "skybox"] >>,
     SET_PHRASE_LIST |->
        <<"Topps Chrome", "panini prizm", "skybox", "SkyBox E-Motion", "topps">>]

TablePool == {MissingTables, LoadedTables}

NoComp == [title |-> "", price |-> None, stage |-> "none"]

FilterIdle ==
    /\ tables = MissingTables /\ title = "" /\ sold = FALSE /\ items = <<>>
    /\ idx = 0 /\ subject_sig = EmptySig /\ subject_serial = ""
    /\ totals = <<>> /\ removed = <<>> /\ last = NoComp /\ raised = ""

RequestIdle == responses = <<>> /\ sent = 0 /\ slept = <<>> /\ result = NoResponse

ActiveIdle ==
    /\ active_cache = NoCache /\ browse_queries = <<>> /\ finding_queries = <<>>
    /\ calls = <<>> /\ merged_items = <<>> /\ filtered_items = <<>>
    /\ removed_items = <<>> /\ act_source = "" /\ supply_count = 0

NoRow == [item_id |-> 0, kind |-> "", suggested |-> None,
          current_price |-> None, update_sent |-> FALSE]
TestMode == [DRY_RUN |-> TRUE, SANDBOX_MODE |-> FALSE]

RunIdle ==
    /\ DRY_RUN = TRUE /\ SANDBOX_MODE = FALSE /\ choice = ""
    /\ flags_before = TestMode /\ resume_from_index = None
    /\ processed_ids = {} /\ item_no = 0 /\ results = <<>> /\ row = NoRow
    /\ touched = {} /\ resume_file = None

SaveIdle == autosave = EmptyFolder /\ frame_len = 0 /\ save_calls = 0

NoItem == [price |-> None, shippingOptions |-> <<>>]
NoFindingItem == [price |-> None, shipping |-> None]

TotalIdle ==
    /\ summary = NoItem /\ finding_item = NoFindingItem
    /\ browse_total = None /\ finding_total = None

TitleIdle ==
    /\ norm_once = "" /\ norm_twice = "" /\ norm_upper = ""
    /\ token_queries = <<>> /\ dynamic_query = ""

\* ------------------------------------------------------------------------
\* Specification SpecRound: _human_round applied once and twice
\* ------------------------------------------------------------------------
InitRound ==
    /\ pc = "round"
    /\ value \in 0..MaxValue
    /\ fp \in FP
    /\ rounded = None /\ rounded2 = None
    /\ PriceIdle /\ MedianIdle /\ FilterIdle /\ RequestIdle /\ ActiveIdle /\ TitleIdle /\ TotalIdle /\ RunIdle /\ SaveIdle

HumanRound ==
    /\ pc = "round"
    /\ rounded' = _human_round(value, fp.tie)
    /\ pc' = "rounded"
    /\ UNCHANGED <<saveVars, runVars, totalVars, titleVars, activeVars, requestVars, priceVars, value, rounded2, medianVars, filterVars>>

HumanRoundAgain ==
    /\ pc = "rounded"
    /\ \E t \in {"lo", "hi"} : rounded2' = _human_round(rounded, t)
    /\ pc' = "rounded2"
    /\ UNCHANGED <<saveVars, runVars, totalVars, titleVars, activeVars, requestVars, priceVars, value, rounded, medianVars, filterVars>>

NextRound == HumanRound \/ HumanRoundAgain

SpecRound == InitRound /\ [][NextRound]_vars

\* ------------------------------------------------------------------------
\* Specification SpecPrice: one call of get_price_strict
\* ------------------------------------------------------------------------
InitPrice ==
    /\ pc = "price"
    /\ active_totals \in SeqsUpTo(ActivePool, MaxActive)
    /\ sold_totals \in SeqsUpTo(SoldPool, MaxSold)
    /\ current_price \in CurrentPool
    /\ fp \in FP
    /\ ret = NoData
    /\ RoundIdle /\ MedianIdle /\ FilterIdle /\ RequestIdle /\ ActiveIdle /\ TitleIdle /\ TotalIdle /\ RunIdle /\ SaveIdle

GetPriceStrict ==
    /\ pc = "price"
    /\ ret' = get_price_strict(active_totals, sold_totals, current_price, fp)
    /\ pc' = "priced"
    /\ UNCHANGED <<saveVars, runVars, totalVars, titleVars, activeVars, requestVars, active_totals, sold_totals, current_price, fp,
                   roundVars, medianVars, filterVars>>

NextPrice == GetPriceStrict

SpecPrice == InitPrice /\ [][NextPrice]_vars

\* ------------------------------------------------------------------------
\* Specification SpecScenario: the actives of the Griffey scenario reach
\* get_price_strict one by one, in any order, then the item is priced.
\* ------------------------------------------------------------------------
InitScenario ==
    /\ pc = "price"
    /\ active_totals = <<>>
    /\ sold_totals = <<>>
    /\ current_price \in ScenarioCurrent
    /\ fp \in FP
    /\ ret = NoData
    /\ RoundIdle /\ MedianIdle /\ FilterIdle /\ RequestIdle /\ ActiveIdle /\ TitleIdle /\ TotalIdle /\ RunIdle /\ SaveIdle

AdmitActive ==
    /\ pc = "price"
    /\ \E p \in ScenarioPrices :
         /\ Num(p) \notin Range(active_totals)
         /\ active_totals' = Append(active_totals, Num(p))
    /\ UNCHANGED <<saveVars, runVars, totalVars, titleVars, activeVars, requestVars, pc, sold_totals, current_price, fp, ret,
                   roundVars, medianVars, filterVars>>

NextScenario == AdmitActive \/ GetPriceStrict

SpecScenario == InitScenario /\ [][NextScenario]_vars

\* ------------------------------------------------------------------------
\* Specification SpecMedian: get_price_strict on a list of actives and on
\* the same list with one more active price.
\* ------------------------------------------------------------------------
InitMedian ==
    /\ pc = "base"
    /\ \E s \in SeqsUpTo(MedianPool, MaxList) :
         /\ Len(s) > 0
         /\ active_totals = [i \in 1..Len(s) |-> Num(s[i])]
    /\ extra \in MedianPool
    /\ sold_totals = <<>>
    /\ current_price = None
    /\ fp \in {f \in FP : f.halfS = "lo" /\ f.tie = "lo"}
    /\ ret = NoData /\ ret2 = NoData
    /\ RoundIdle /\ FilterIdle /\ RequestIdle /\ ActiveIdle /\ TitleIdle /\ TotalIdle /\ RunIdle /\ SaveIdle

PriceBase ==
    /\ pc = "base"
    /\ ret' = get_price_strict(active_totals, sold_totals, current_price, fp)
    /\ pc' = "extra"
    /\ UNCHANGED <<saveVars, runVars, totalVars, titleVars, activeVars, requestVars, active_totals, sold_totals, current_price, fp,
                   roundVars, medianVars, filterVars>>

PriceWithExtra ==
    /\ pc = "extra"
    /\ ret2' = get_price_strict(Append(active_totals, Num(extra)),
                                sold_totals, current_price, fp)
    /\ pc' = "both"
    /\ UNCHANGED <<saveVars, runVars, totalVars, titleVars, activeVars, requestVars, active_totals, sold_totals, current_price, fp, ret,
                   roundVars, extra, filterVars>>

NextMedian == PriceBase \/ PriceWithExtra

SpecMedian == InitMedian /\ [][NextMedian]_vars

\* ------------------------------------------------------------------------
\* Specification SpecFilter: one call of _fetch_prices_for_query with the
\* subject title as base_title and a non-empty query, or one call of
\* search_active.
\* ------------------------------------------------------------------------
Item(t, p) ==
    [title |-> t, price |-> p, shippingOptions |-> <<>>,
     buyingOptions |-> <<"FIXED_PRICE">>, itemGroupType |-> "",
     itemWebUrl |-> "https://www.ebay.com/itm/1"]

TroutSubject == "2021 Topps Chrome Refractor #50 Mike Trout"
TroutRefractor == Item("2021 Topps Chrome Refractor #50 Trout", 1200)
TroutBase == Item("2021 Topps Chrome #50 Trout (base)", 350)
TroutPrizm == Item("2021 Panini Prizm #50 Trout", 800)

SubjectPool ==
    {TroutSubject, "2020 Prizm Gold 12/250 Luka", "Griffey Donruss"}

Catalogue ==
    << TroutRefractor, TroutBase, TroutPrizm,
       Item("2020 Prizm Gold Luka 12/250", 1500),
       Item("2020 Prizm Gold Luka #07/99", 400),
       Item("2020 Prizm Gold Luka", 400),
       Item("Griffey Donruss Promo", 200),
       Item("2021 Topps Chrome #50 Mike Trout", 350),
       Item("2021 Topps Chrome Refractor #51 Trout", 1100),
       Item("2021 Topps Chrome Refractor #50 Trout 12/99", 2500),
       [title |-> " 2021 Topps Chrome Refractor #50 Trout PSA 10 ",
        price |-> 90, shippingOptions |-> <<499, 0>>,
        buyingOptions |-> <<"FIXED_PRICE", "AUCTION">>,
        itemGroupType |-> "", itemWebUrl |-> ""] >>

\* The item lists of the explored responses: up to MaxItems consecutive
\* entries of the catalogue
Responses ==
    {SubSeq(Catalogue, w[1], w[1] + w[2] - 1) :
        w \in {v \in (1..Len(Catalogue)) \X (0..MaxItems) :
                  v[1] + v[2] - 1 <= Len(Catalogue)}}

\* The active cache: no fresh entry for the title, or a fresh list
CachePool == {<<>>, <<200, 350>>}

\* subject_sig when base_title is None
NoneSig == [EmptySig EXCEPT !.keys = None]

InitFilter ==
    /\ pc \in {"fetch", "active"}
    /\ tables \in TablePool
    /\ title \in SubjectPool
    /\ sold \in BOOLEAN
    /\ items \in Responses
    /\ (pc = "active") => (items = <<>> /\ sold = FALSE)
    /\ idx = 0 /\ subject_sig = EmptySig /\ subject_serial = ""
    /\ totals = <<>> /\ removed = <<>> /\ last = NoComp /\ raised = ""
    /\ fp = [halfA |-> "lo", halfS |-> "lo", tie |-> "lo"]
    /\ RoundIdle /\ PriceIdle /\ MedianIdle /\ RequestIdle /\ ActiveIdle /\ TitleIdle /\ TotalIdle /\ RunIdle /\ SaveIdle

\* _fetch_prices_for_query up to the for loop: the subject's signature and
\* serial fragment, then the request; without a 200 response it returns [].
FetchStart ==
    /\ pc = "fetch"
    /\ subject_sig' = IF title # "" THEN _extract_card_signature_from_title(title)
                      ELSE NoneSig
    /\ subject_serial' = IF title # "" THEN _extract_serial_fragment(title) ELSE ""
    /\ \E ok \in BOOLEAN : pc' = IF ok THEN "loop" ELSE "done"
    /\ UNCHANGED <<saveVars, runVars, totalVars, titleVars, activeVars, requestVars, priceVars, roundVars, medianVars, tables, title, sold, items,
                   idx, totals, removed, last, raised>>

\* One iteration of "for it in items"
FetchItem ==
    /\ pc = "loop"
    /\ idx < Len(items)
    /\ last' = [title |-> normalize_title(items[idx + 1].title),
                price |-> _extract_total_price(items[idx + 1]),
                stage |-> FetchRejectStage(items[idx + 1], title, subject_sig,
                                           subject_serial, sold)]
    /\ totals' = IF last'.stage = "" THEN Append(totals, last'.price) ELSE totals
    /\ removed' = IF last'.stage = "" THEN removed
                  ELSE Append(removed, [title |-> last'.title,
                                        stage |-> last'.stage])
    /\ idx' = idx + 1
    /\ UNCHANGED <<saveVars, runVars, totalVars, titleVars, activeVars, requestVars, pc, priceVars, roundVars, medianVars, tables, title, sold,
                   items, subject_sig, subject_serial, raised>>

\* return sorted(totals)
FetchReturn ==
    /\ pc = "loop"
    /\ idx = Len(items)
    /\ totals' = Sorted(totals)
    /\ pc' = "done"
    /\ UNCHANGED <<saveVars, runVars, totalVars, titleVars, activeVars, requestVars, priceVars, roundVars, medianVars, tables, title, sold, items,
                   idx, subject_sig, subject_serial, removed, last, raised>>

\* search_active: a fresh cache entry is returned as it is.  Otherwise the
\* Browse fetcher reads the undefined name ORIGINAL_TITLE as soon as a
\* request is answered with 200, and the Finding fetcher calls the undefined
\* _extract_total_price_from_finding for its first item: the call ends with
\* NameError, or with no merged item and "No actives".  The strict layer
\* below the merge is not reached.
SearchActive ==
    /\ pc = "active"
    /\ \E cached \in CachePool, browse \in {"none", "ok"},
          finding \in {"none", "empty", "items"} :
         IF cached # <<>>
         THEN totals' = cached /\ raised' = ""
         ELSE /\ totals' = <<>>
              /\ raised' = IF browse = "ok" \/ finding = "items"
                           THEN "NameError" ELSE ""
    /\ pc' = "done"
    /\ UNCHANGED <<saveVars, runVars, totalVars, titleVars, activeVars, requestVars, priceVars, roundVars, medianVars, tables, title, sold, items,
                   idx, subject_sig, subject_serial, removed, last>>

NextFilter == FetchStart \/ FetchItem \/ FetchReturn \/ SearchActive

SpecFilter == InitFilter /\ [][NextFilter]_vars

\* ------------------------------------------------------------------------
\* Specification SpecRequest: one call of _request
\* ------------------------------------------------------------------------
\* Seconds until the reset time named by the X-EBAY-C-RESET-TIME header
ResetPool == {0, 59, 60, 61, MAX_SINGLE_COOLDOWN_SEC, MaxReset}

ResponsePool ==
    {RequestException,
     Response(200, FALSE, None), Response(500, FALSE, None),
     Response(401, TRUE, None), Response(401, FALSE, None),
     Response(403, TRUE, None), Response(429, FALSE, None)}
    \cup {Response(429, FALSE, n) : n \in ResetPool}

InitRequest ==
    /\ pc = "request"
    /\ responses \in [1..2 -> ResponsePool]
    /\ sent = 0 /\ slept = <<>> /\ result = NoResponse
    /\ RoundIdle /\ PriceIdle /\ MedianIdle /\ FilterIdle /\ ActiveIdle /\ TitleIdle /\ TotalIdle /\ RunIdle /\ SaveIdle
    /\ fp = [halfA |-> "lo", halfS |-> "lo", tie |-> "lo"]

\* The first requests.request; an exception makes _request return
\* (None, None)
RequestSend ==
    /\ pc = "request"
    /\ sent' = sent + 1
    /\ IF responses[1].kind = "exception"
       THEN result' = NoResponse /\ pc' = "returned"
       ELSE result' = result /\ pc' = "handle"
    /\ UNCHANGED <<saveVars, runVars, totalVars, titleVars, activeVars, priceVars, roundVars, medianVars, filterVars, responses, slept>>

\* _handle_rate_limit_and_token for the first response: SystemExit for an
\* expired token, the sleep of a 429, and the decision to retry
RequestHandle ==
    /\ pc = "handle"
    /\ IF _token_expired(responses[1])
       THEN /\ raised' = "SystemExit" /\ pc' = "exit"
            /\ UNCHANGED <<slept, result>>
       ELSE /\ raised' = raised
            /\ slept' = IF CooldownOf(responses[1]) > 0
                        THEN Append(slept, CooldownOf(responses[1])) ELSE slept
            /\ IF _handle_rate_limit_and_token(responses[1])
               THEN result' = result /\ pc' = "retry"
               ELSE result' = responses[1] /\ pc' = "returned"
    /\ UNCHANGED <<saveVars, runVars, totalVars, titleVars, activeVars, priceVars, roundVars, medianVars, responses, sent,
                   tables, title, sold, items, idx, subject_sig, subject_serial,
                   totals, removed, last>>

\* The second requests.request and its _handle_rate_limit_and_token, whose
\* return value is not used
RequestRetry ==
    /\ pc = "retry"
    /\ sent' = sent + 1
    /\ IF responses[2].kind = "exception"
       THEN /\ result' = NoResponse /\ pc' = "returned"
            /\ UNCHANGED <<slept, raised>>
       ELSE IF _token_expired(responses[2])
       THEN /\ raised' = "SystemExit" /\ pc' = "exit"
            /\ UNCHANGED <<slept, result>>
       ELSE /\ raised' = raised
            /\ slept' = IF CooldownOf(responses[2]) > 0
                        THEN Append(slept, CooldownOf(responses[2])) ELSE slept
            /\ result' = responses[2] /\ pc' = "returned"
    /\ UNCHANGED <<saveVars, runVars, totalVars, titleVars, activeVars, priceVars, roundVars, medianVars, responses,
                   tables, title, sold, items, idx, subject_sig, subject_serial,
                   totals, removed, last>>

NextRequest == RequestSend \/ RequestHandle \/ RequestRetry

SpecRequest == InitRequest /\ [][NextRequest]_vars

\* ------------------------------------------------------------------------
\* Specification SpecActive: one call of search_active
\* ------------------------------------------------------------------------
\* The subject titles, the empty title included
ActiveTitlePool == SubjectPool \cup {""}

\* The cache: None, empty, or one entry: for the Trout title (fresh, exactly
\* as old as the TTL, one minute older, or with an empty price list), or for
\* the same card in other words or in another case
ActiveCachePool ==
    {NoCache, Cache({}),
     Cache({CacheEntry(TroutSubject, <<200, 350>>, 0)}),
     Cache({CacheEntry(TroutSubject, <<200, 350>>, ACTIVE_CACHE_TTL_MIN)}),
     Cache({CacheEntry(TroutSubject, <<200, 350>>, ACTIVE_CACHE_TTL_MIN + 1)}),
     Cache({CacheEntry(TroutSubject, <<>>, 0)}),
     Cache({CacheEntry("Mike Trout 2021 Topps Chrome Refractor #50", <<200, 350>>, 0)}),
     Cache({CacheEntry(Lower(TroutSubject), <<200, 350>>, 0)})}

PayloadPool == {<<>>, <<TroutRefractor>>, <<TroutRefractor, TroutBase>>}

Timeout == Answer(RequestException, FALSE, <<>>)
ServerError == Answer(Response(500, FALSE, None), FALSE, <<>>)
TokenExpired == Answer(Response(401, TRUE, None), FALSE, <<>>)
Malformed == Answer(Response(200, FALSE, None), FALSE, <<>>)

AnswerPool ==
    {Timeout, ServerError, TokenExpired, Malformed}
    \cup {Answer(Response(200, FALSE, None), TRUE, p) : p \in PayloadPool}

InitActive ==
    /\ pc = "search_active"
    /\ title \in ActiveTitlePool
    /\ active_cache \in ActiveCachePool
    /\ tables = MissingTables /\ sold = FALSE /\ items = <<>> /\ idx = 0
    /\ subject_sig = EmptySig /\ subject_serial = ""
    /\ totals = <<>> /\ removed = <<>> /\ last = NoComp /\ raised = ""
    /\ browse_queries = <<>> /\ finding_queries = <<>> /\ calls = <<>>
    /\ merged_items = <<>> /\ filtered_items = <<>> /\ removed_items = <<>>
    /\ act_source = "" /\ supply_count = 0
    /\ RoundIdle /\ PriceIdle /\ MedianIdle /\ RequestIdle /\ TitleIdle /\ TotalIdle /\ RunIdle /\ SaveIdle
    /\ fp = [halfA |-> "lo", halfS |-> "lo", tie |-> "lo"]

\* if from_cache and cached
CacheHit(t, cache) ==
    /\ cache.present
    /\ maybe_use_active_cache(t, cache, ACTIVE_CACHE_TTL_MIN).from_cache
    /\ maybe_use_active_cache(t, cache, ACTIVE_CACHE_TTL_MIN).prices # <<>>

\* search_active up to the merge loops: the title is stripped, a cache hit
\* is returned, otherwise the queries are built
ActiveStart ==
    /\ pc = "search_active"
    /\ title' = Strip(title)
    /\ IF CacheHit(title', active_cache)
       THEN /\ totals' = maybe_use_active_cache(title', active_cache,
                                                ACTIVE_CACHE_TTL_MIN).prices
            /\ act_source' = "ActiveCache (Merged)"
            /\ supply_count' = Len(totals')
            /\ pc' = "returned"
            /\ UNCHANGED <<browse_queries, finding_queries, norm_once,
                           token_queries, dynamic_query>>
       ELSE /\ norm_once' = normalize_title_global(title')
            /\ token_queries' = _build_token_based_queries(title')
            /\ dynamic_query' = DynamicQueryOf(token_queries', norm_once')
            /\ browse_queries' = BrowseQueries(title', dynamic_query')
            /\ finding_queries' = FindingQueries(title', dynamic_query')
            /\ pc' = "browse"
            /\ UNCHANGED <<totals, act_source, supply_count>>
    /\ UNCHANGED <<saveVars, runVars, totalVars, priceVars, roundVars,
                   medianVars, requestVars, norm_twice, norm_upper,
                   tables, sold, items, idx, subject_sig, subject_serial,
                   removed, last, raised, active_cache, calls, merged_items,
                   filtered_items, removed_items>>

Call(backend, query, a, f) ==
    [backend |-> backend, query |-> query, answer |-> a, fetched |-> f]

\* One turn of the browse merge loop: the fetcher call for the next query
\* and the merge of what it returns; an exception of the fetcher ends
\* search_active
BrowseCall ==
    /\ pc = "browse"
    /\ \E a \in AnswerPool :
         /\ calls' = Append(calls,
                Call("Browse", browse_queries[Len(calls) + 1], a,
                     _fetch_active_items_browse_for_query(a)))
         /\ IF calls'[Len(calls')].fetched.exc # ""
            THEN /\ raised' = calls'[Len(calls')].fetched.exc
                 /\ pc' = "raised"
                 /\ UNCHANGED merged_items
            ELSE /\ merged_items' =
                        MergeItems(merged_items, calls'[Len(calls')].fetched.comps)
                 /\ pc' = IF Len(calls') = Len(browse_queries)
                          THEN "finding" ELSE "browse"
                 /\ UNCHANGED raised
    /\ UNCHANGED <<saveVars, runVars, totalVars, titleVars, priceVars, roundVars, medianVars, requestVars,
                   tables, title, sold, items, idx, subject_sig, subject_serial,
                   totals, removed, last, active_cache, browse_queries,
                   finding_queries, filtered_items, removed_items, act_source,
                   supply_count>>

\* One turn of the finding merge loop
FindingCall ==
    /\ pc = "finding"
    /\ \E a \in AnswerPool :
         /\ calls' = Append(calls,
                Call("Finding",
                     finding_queries[Len(calls) - Len(browse_queries) + 1], a,
                     _fetch_active_items_finding_for_query(a)))
         /\ IF calls'[Len(calls')].fetched.exc # ""
            THEN /\ raised' = calls'[Len(calls')].fetched.exc
                 /\ pc' = "raised"
                 /\ UNCHANGED merged_items
            ELSE /\ merged_items' =
                        MergeItems(merged_items, calls'[Len(calls')].fetched.comps)
                 /\ pc' = IF Len(calls') = Len(browse_queries) + Len(finding_queries)
                          THEN "strict" ELSE "finding"
                 /\ UNCHANGED raised
    /\ UNCHANGED <<saveVars, runVars, totalVars, titleVars, priceVars, roundVars, medianVars, requestVars,
                   tables, title, sold, items, idx, subject_sig, subject_serial,
                   totals, removed, last, active_cache, browse_queries,
                   finding_queries, filtered_items, removed_items, act_source,
                   supply_count>>

\* any_browse, any_finding: a call of the backend returned a non-empty list
AnyFrom(backend) ==
    \E n \in 1..Len(calls) :
        calls[n].backend = backend /\ calls[n].fetched.comps # <<>>

\* " + ".join(source_bits) + " (Merged)" if source_bits else "No actives"
SourceString ==
    IF AnyFrom("Browse") /\ AnyFrom("Finding") THEN "Browse + Finding (Merged)"
    ELSE IF AnyFrom("Browse") THEN "Browse (Merged)"
    ELSE IF AnyFrom("Finding") THEN "Finding (Merged)"
    ELSE "No actives"

\* search_active below the merge loops: "No actives" without merged items,
\* otherwise the strict layer, the sort, the source string and the cache
\* update
ActiveFinish ==
    /\ pc = "strict"
    /\ IF merged_items = <<>>
       THEN /\ totals' = <<>> /\ act_source' = "No actives"
            /\ supply_count' = 0 /\ pc' = "returned"
            /\ UNCHANGED <<raised, filtered_items, removed_items, active_cache>>
       ELSE IF StrictLayer(title, merged_items).exc # ""
       THEN /\ raised' = StrictLayer(title, merged_items).exc
            /\ removed_items' = StrictLayer(title, merged_items).removed_items
            /\ pc' = "raised"
            /\ UNCHANGED <<totals, act_source, supply_count, filtered_items,
                           active_cache>>
       ELSE /\ filtered_items' = StrictLayer(title, merged_items).filtered
            /\ removed_items' = StrictLayer(title, merged_items).removed_items
            /\ totals' = Sorted([n \in 1..Len(filtered_items') |->
                                    filtered_items'[n].total])
            /\ act_source' = IF filtered_items' = <<>> THEN "No actives"
                             ELSE SourceString
            /\ supply_count' = Len(totals')
            /\ active_cache' = IF active_cache.present
                               THEN update_active_cache(title, totals', active_cache)
                               ELSE active_cache
            /\ pc' = "returned"
            /\ UNCHANGED raised
    /\ UNCHANGED <<saveVars, runVars, totalVars, titleVars, priceVars, roundVars, medianVars, requestVars,
                   tables, title, sold, items, idx, subject_sig, subject_serial,
                   removed, last, browse_queries, finding_queries, calls,
                   merged_items>>

NextActive == ActiveStart \/ BrowseCall \/ FindingCall \/ ActiveFinish

SpecActive == InitActive /\ [][NextActive]_vars

\* ------------------------------------------------------------------------
\* Specification SpecTitle: one call of _build_dynamic_query(title), step
\* by step: the title's normalization, its signature, the token based
\* queries and the query with the negative terms.  NormalizeAgain applies
\* normalize_title_global to the result and to the upper-cased title.
\* ------------------------------------------------------------------------
\* token_rules.json as save_token_rules of the pricing engine writes it:
\* a non-empty dict with none of the keys of the default TOKEN_RULES
EngineRulesTables ==
    [MissingTables EXCEPT !.TOKEN_RULES =
        [keys |-> {}, remove_words |-> <<>>, player_suffixes |-> <<>>,
         max_name_word_length |-> 20, normalization_table |-> <<>>]]

\* set_phrases.json as a dict from phrase to count, the form the set
\* phrase learner writes: iterating SET_PHRASES gives the phrases, each
\* a str
CountedPhraseTables ==
    [LoadedTables EXCEPT !.SET_PHRASES_ENTRY = "str"]

TitleTablePool ==
    {MissingTables, LoadedTables, EngineRulesTables, CountedPhraseTables}

TitlePool ==
    SubjectPool \cup
    {"", "###", "12345", "2021", "hello world",
     "2021 Topps Chrome Trout", "2021 TOPPS CHROME TROUT",
     "2021 topps chrome #50 mike trout jr",
     "1993 Sky/Box Premium Jordan", "1999 Topp-Chrome Jeter #7",
     "1996 SkyBox E-Motion #23 Jordan", "1997 E.Motion Kobe",
     "1990 Topps Factory Sealed Case Griffey", "Lot of 5 Prizm Luka RC",
     "No. 12 Box Break Hit", "Topps Finest"}

InitTitle ==
    /\ pc = "normalize"
    /\ title \in TitlePool
    /\ tables \in TitleTablePool
    /\ sold = FALSE /\ items = <<>> /\ idx = 0
    /\ subject_sig = EmptySig /\ subject_serial = ""
    /\ totals = <<>> /\ removed = <<>> /\ last = NoComp /\ raised = ""
    /\ TitleIdle
    /\ RoundIdle /\ PriceIdle /\ MedianIdle /\ RequestIdle /\ ActiveIdle /\ TotalIdle /\ RunIdle /\ SaveIdle
    /\ fp = [halfA |-> "lo", halfS |-> "lo", tie |-> "lo"]

NormalizeTitle ==
    /\ pc = "normalize"
    /\ norm_once' = normalize_title_global(title)
    /\ pc' = "again"
    /\ UNCHANGED <<saveVars, runVars, totalVars, activeVars, requestVars, priceVars, roundVars, medianVars,
                   filterVars, norm_twice, norm_upper, token_queries,
                   dynamic_query>>

NormalizeAgain ==
    /\ pc = "again"
    /\ norm_twice' = normalize_title_global(norm_once)
    /\ norm_upper' = normalize_title_global(Upper(title))
    /\ pc' = "signature"
    /\ UNCHANGED <<saveVars, runVars, totalVars, activeVars, requestVars, priceVars, roundVars, medianVars,
                   filterVars, norm_once, token_queries, dynamic_query>>

ExtractSignature ==
    /\ pc = "signature"
    /\ raised' = SignatureException(title, norm_once)
    /\ IF raised' # ""
       THEN pc' = "raised" /\ UNCHANGED subject_sig
       ELSE /\ pc' = "queries"
            /\ subject_sig' = IF title = "" THEN EmptySig
                              ELSE SignatureFields(title, norm_once)
    /\ UNCHANGED <<saveVars, runVars, totalVars, activeVars, requestVars, priceVars, roundVars, medianVars,
                   titleVars, tables, title, sold, items, idx,
                   subject_serial, totals, removed, last>>

BuildTokenQueries ==
    /\ pc = "queries"
    /\ token_queries' = TokenQueriesOf(subject_sig, norm_once)
    /\ pc' = "dynamic"
    /\ UNCHANGED <<saveVars, runVars, totalVars, activeVars, requestVars, priceVars, roundVars, medianVars,
                   filterVars, norm_once, norm_twice, norm_upper,
                   dynamic_query>>

BuildDynamicQuery ==
    /\ pc = "dynamic"
    /\ dynamic_query' = DynamicQueryOf(token_queries, norm_once)
    /\ pc' = "built"
    /\ UNCHANGED <<saveVars, runVars, totalVars, activeVars, requestVars, priceVars, roundVars, medianVars,
                   filterVars, norm_once, norm_twice, norm_upper,
                   token_queries>>

NextTitle ==
    \/ NormalizeTitle \/ NormalizeAgain \/ ExtractSignature
    \/ BuildTokenQueries \/ BuildDynamicQuery

SpecTitle == InitTitle /\ [][NextTitle]_vars

\* ------------------------------------------------------------------------
\* Specification SpecTotal: one call of _extract_total_price or of
\* _extract_total_price_finding.  Amounts are in cents.
\* ------------------------------------------------------------------------
PricePool == {None, 0, 98, 99, 100, 149, 150, 151, 9900, 9999, 10000, 10001}
ShipPool == {0, 1, 50, 51, 100, 101}

InitTotal ==
    /\ pc \in {"browse_item", "finding_item"}
    /\ summary \in [price : PricePool,
                    shippingOptions : SeqsUpTo(ShipPool, MaxShip)]
    /\ finding_item \in [price : PricePool, shipping : ShipPool \cup {None}]
    /\ (pc = "browse_item") => finding_item = NoFindingItem
    /\ (pc = "finding_item") => summary = NoItem
    /\ browse_total = None /\ finding_total = None
    /\ RoundIdle /\ PriceIdle /\ MedianIdle /\ FilterIdle /\ RequestIdle
    /\ ActiveIdle /\ TitleIdle /\ RunIdle /\ SaveIdle
    /\ fp = [halfA |-> "lo", halfS |-> "lo", tie |-> "lo"]

ExtractTotalPrice ==
    /\ pc = "browse_item"
    /\ browse_total' = _extract_total_price(summary)
    /\ pc' = "browse_total"
    /\ UNCHANGED <<saveVars, runVars, titleVars, activeVars, requestVars, priceVars, roundVars,
                   medianVars, filterVars, summary, finding_item,
                   finding_total>>

ExtractTotalPriceFinding ==
    /\ pc = "finding_item"
    /\ finding_total' = _extract_total_price_finding(finding_item)
    /\ pc' = "finding_total"
    /\ UNCHANGED <<saveVars, runVars, titleVars, activeVars, requestVars, priceVars, roundVars,
                   medianVars, filterVars, summary, finding_item,
                   browse_total>>

NextTotal == ExtractTotalPrice \/ ExtractTotalPriceFinding

SpecTotal == InitTotal /\ [][NextTotal]_vars

\* ------------------------------------------------------------------------
\* Specification SpecRun: main from its menu to the end of a batch run.
\* The ids of the batch are 1..MaxIds; the autosave file of an earlier run
\* holds the rows of the first ids.
\* ------------------------------------------------------------------------
RunSuggestPool == {None, 199, 229, 529}
RunCurrentPool == {None, 0, 180, 199, 219, 499}

InitRun ==
    /\ pc = "menu"
    /\ DRY_RUN = TRUE /\ SANDBOX_MODE = FALSE
    /\ choice = "" /\ flags_before = TestMode
    /\ resume_from_index \in {None, 3}
    /\ autosave \in {EmptyFolder, [EmptyFolder EXCEPT !.base = CsvFile(2)]}
    /\ frame_len = 0 /\ save_calls = 0
    /\ active_cache = NoCache
    /\ processed_ids = {} /\ item_no = 0 /\ results = <<>> /\ row = NoRow
    /\ touched = {} /\ resume_file = None
    /\ browse_queries = <<>> /\ finding_queries = <<>> /\ calls = <<>>
    /\ merged_items = <<>> /\ filtered_items = <<>> /\ removed_items = <<>>
    /\ act_source = "" /\ supply_count = 0
    /\ RoundIdle /\ PriceIdle /\ MedianIdle /\ FilterIdle /\ RequestIdle
    /\ TitleIdle /\ TotalIdle
    /\ fp = [halfA |-> "lo", halfS |-> "lo", tie |-> "lo"]

Flags == [DRY_RUN |-> DRY_RUN, SANDBOX_MODE |-> SANDBOX_MODE]

\* choice == "0"
MenuToggleLive ==
    /\ pc = "menu"
    /\ choice' = "0" /\ flags_before' = Flags
    /\ DRY_RUN' = ToggleLive(Flags).DRY_RUN
    /\ SANDBOX_MODE' = ToggleLive(Flags).SANDBOX_MODE
    /\ UNCHANGED <<saveVars, totalVars, titleVars, activeVars, requestVars,
                   priceVars, roundVars, medianVars, filterVars, pc,
                   resume_from_index, processed_ids, item_no, results, row,
                   touched, resume_file>>

\* choice == "S"
MenuToggleSandbox ==
    /\ pc = "menu"
    /\ choice' = "S" /\ flags_before' = Flags
    /\ DRY_RUN' = ToggleSandbox(Flags).DRY_RUN
    /\ SANDBOX_MODE' = ToggleSandbox(Flags).SANDBOX_MODE
    /\ UNCHANGED <<saveVars, totalVars, titleVars, activeVars, requestVars,
                   priceVars, roundVars, medianVars, filterVars, pc,
                   resume_from_index, processed_ids, item_no, results, row,
                   touched, resume_file>>

\* A choice that starts a batch run, and the shared setup after the ids
\* are chosen: the active cache is loaded and the ids of the latest
\* autosave are read unless the sandbox is on.
MenuRun ==
    /\ pc = "menu"
    /\ choice' = "1" /\ flags_before' = Flags
    /\ IF ~SANDBOX_MODE
       THEN /\ active_cache' = Cache({})
            /\ touched' = touched \cup {"cache read"}
            /\ processed_ids' = IF autosave.base.readable
                                THEN 1..autosave.base.rows ELSE {}
       ELSE /\ active_cache' = NoCache
            /\ UNCHANGED <<touched, processed_ids>>
    /\ pc' = "loop"
    /\ UNCHANGED <<saveVars, totalVars, titleVars, requestVars, priceVars,
                   roundVars, medianVars, filterVars, DRY_RUN, SANDBOX_MODE,
                   resume_from_index, item_no, results, row, resume_file,
                   browse_queries, finding_queries, calls, merged_items,
                   filtered_items, removed_items, act_source, supply_count>>

\* The row process_item returns: "override" for the manual override skip,
\* "error" for the row of the except branch, "priced" after the searches
\* and get_price_strict, with the suggestion and the current price
ProcessedRow(item_id, kind, suggested, cur_price, abs_tie, pct_tie) ==
    [item_id |-> item_id, kind |-> kind,
     suggested |-> IF kind = "priced" THEN suggested ELSE None,
     current_price |-> IF kind = "priced" THEN cur_price ELSE None,
     update_sent |-> /\ kind = "priced"
                     /\ SendsUpdate(DRY_RUN, suggested, cur_price,
                                    abs_tie, pct_tie)]

\* One iteration of the main loop: a skip, or process_item and, after
\* every tenth id, the autosave block
LoopItem ==
    /\ pc = "loop" /\ item_no < MaxIds
    /\ item_no' = item_no + 1
    /\ IF Skips(SANDBOX_MODE, item_no', resume_from_index, processed_ids)
       THEN UNCHANGED <<results, row, touched, resume_file, saveVars>>
       ELSE \E kind \in {"override", "error", "priced"},
               suggested \in RunSuggestPool, cur_price \in RunCurrentPool,
               abs_tie \in BOOLEAN, pct_tie \in BOOLEAN :
              /\ row' = ProcessedRow(item_no', kind, suggested, cur_price,
                                     abs_tie, pct_tie)
              /\ results' = Append(results, item_no')
              /\ IF item_no' % 10 = 0 /\ ~SANDBOX_MODE
                 THEN /\ \E env \in {"ok", "failed", "locked"} :
                           autosave' = _autosave_write_atomic(
                                           autosave, Len(results'), env)
                      /\ frame_len' = Len(results')
                      /\ save_calls' = save_calls + 1
                      /\ resume_file' = item_no' + 1
                      /\ touched' = touched
                            \cup {"autosave", "resume index"}
                            \cup (IF active_cache.present
                                  THEN {"cache write"} ELSE {})
                            \cup (IF row'.update_sent
                                  THEN {"revise"} ELSE {})
                 ELSE /\ touched' = touched
                            \cup (IF row'.update_sent
                                  THEN {"revise"} ELSE {})
                      /\ UNCHANGED <<resume_file, saveVars>>
    /\ UNCHANGED <<totalVars, titleVars, activeVars, requestVars, priceVars,
                   roundVars, medianVars, filterVars, pc, DRY_RUN,
                   SANDBOX_MODE, choice, flags_before, resume_from_index,
                   processed_ids>>

\* except KeyboardInterrupt
Interrupt ==
    /\ pc = "loop" /\ item_no < MaxIds
    /\ IF ~SANDBOX_MODE
       THEN \E env \in {"ok", "failed", "locked"} :
              /\ autosave' = _autosave_write_atomic(autosave, Len(results),
                                                    env)
              /\ frame_len' = Len(results)
              /\ save_calls' = save_calls + 1
              /\ touched' = touched \cup {"autosave"}
                    \cup (IF active_cache.present THEN {"cache write"}
                          ELSE {})
       ELSE UNCHANGED <<touched, saveVars>>
    /\ pc' = "interrupted"
    /\ UNCHANGED <<totalVars, titleVars, activeVars, requestVars, priceVars,
                   roundVars, medianVars, filterVars, DRY_RUN, SANDBOX_MODE,
                   choice, flags_before, resume_from_index, processed_ids,
                   item_no, results, row, resume_file>>

\* After the loop: the active cache is saved, the final report written
RunFinish ==
    /\ pc \in {"loop", "interrupted"}
    /\ pc = "loop" => item_no = MaxIds
    /\ touched' = touched
          \cup (IF ~SANDBOX_MODE /\ active_cache.present
                THEN {"cache write"} ELSE {})
    /\ pc' = "finished"
    /\ UNCHANGED <<saveVars, totalVars, titleVars, activeVars, requestVars,
                   priceVars, roundVars, medianVars, filterVars, DRY_RUN,
                   SANDBOX_MODE, choice, flags_before, resume_from_index,
                   processed_ids, item_no, results, row, resume_file>>

NextRun ==
    \/ MenuToggleLive \/ MenuToggleSandbox \/ MenuRun
    \/ LoopItem \/ Interrupt \/ RunFinish

SpecRun == InitRun /\ [][NextRun]_vars

\* ------------------------------------------------------------------------
\* Specification SpecSave: a sequence of _autosave_write_atomic calls, each
\* in two steps, up to df.to_csv(tmp_path) and os.replace.
\* ------------------------------------------------------------------------
InitSave ==
    /\ pc = "autosave"
    /\ autosave \in [base : {NoFile, BrokenFile}
                            \cup {CsvFile(n) : n \in 0..MaxRows},
                     tmp : {"absent"}, fallbacks : {0}]
    /\ frame_len = 0 /\ save_calls = 0
    /\ RoundIdle /\ PriceIdle /\ MedianIdle /\ FilterIdle /\ RequestIdle
    /\ ActiveIdle /\ TitleIdle /\ TotalIdle /\ RunIdle
    /\ fp = [halfA |-> "lo", halfS |-> "lo", tie |-> "lo"]

AutosaveWriteTmp ==
    /\ pc = "autosave" /\ save_calls < MaxSaves
    /\ \E new_len \in 0..MaxRows, env \in {"ok", "failed"} :
          /\ frame_len' = new_len
          /\ autosave' = WriteTmp(autosave, new_len, env).folder
          /\ pc' = IF WriteTmp(autosave, new_len, env).replace
                   THEN "replace" ELSE "autosave"
    /\ save_calls' = save_calls + 1
    /\ UNCHANGED <<runVars, totalVars, titleVars, activeVars, requestVars,
                   priceVars, roundVars, medianVars, filterVars>>

AutosaveReplace ==
    /\ pc = "replace"
    /\ \E env \in {"ok", "locked"} :
          autosave' = ReplaceBase(autosave, frame_len, env)
    /\ pc' = "autosave"
    /\ UNCHANGED <<runVars, totalVars, titleVars, activeVars, requestVars,
                   priceVars, roundVars, medianVars, filterVars, frame_len,
                   save_calls>>

NextSave == AutosaveWriteTmp \/ AutosaveReplace

SpecSave == InitSave /\ [][NextSave]_vars

\* ========================================================================
\* Claims
\* ========================================================================
Priced == pc = "priced" /\ ret.suggested # None

\* C1 (as stated): with current_price > 0 a returned suggestion is never
\* more than MAX_DROP_PERCENT below current_price, that is
\* suggested >= current_price * (1 - 40/100), and never below PRICE_FLOOR.
C1_DropBound ==
    (Priced /\ current_price > 0) =>
        /\ ret.suggested * 100 >= current_price * (100 - MAX_DROP_PERCENT)
        /\ ret.suggested >= PRICE_FLOOR

OnlyUnusable(raw) ==
    \A i \in 1..Len(raw) : ~raw[i].ok \/ raw[i].c <= 0

\* C2: when no active and no sold value is numeric and positive,
\* get_price_strict returns (None, None, None, "No data") whatever the
\* current price is; no rounding and no clamp leaves a trace.
C2_NoData ==
    (pc = "priced" /\ OnlyUnusable(active_totals) /\ OnlyUnusable(sold_totals))
        => ret = NoData

C2_Witness ==
    /\ pc = "priced"
    /\ Len(active_totals) > 0 /\ OnlyUnusable(active_totals)
    /\ Len(sold_totals) > 0 /\ OnlyUnusable(sold_totals)
    /\ current_price > 0
    /\ ret = NoData

GriffeyCase ==
    /\ pc = "priced"
    /\ Len(active_totals) = 6
    /\ Range(active_totals) = {Num(p) : p \in ScenarioPrices}
    /\ sold_totals = <<>>
    /\ current_price = 500

\* C3 (as stated): for actives 2.00 2.25 2.50 2.75 3.00 3.25, no solds and a
\* current price of 5.00 the lowest-5 median is 2.50 and the suggestion is
\* 3.00 with a note containing "Drop capped".
C3_Original ==
    GriffeyCase =>
        /\ ret.median_active = 250
        /\ ret.suggested = 300
        /\ "Drop capped 40% vs current" \in Range(ret.note)

\* C3 (amended): in the same case the lowest-5 median is 2.50, the 40% cap
\* lifts the suggestion to 3.00 and the high-price floor (current price
\* >= 4.99) lifts it further to 3.49; the note names both clamps.
C3_Amended ==
    GriffeyCase =>
        /\ ret.median_active = 250
        /\ ret.median_sold = None
        /\ ret.suggested = 349
        /\ "Drop capped 40% vs current" \in Range(ret.note)
        /\ "High-price floor clamp" \in Range(ret.note)

C3_Witness == GriffeyCase /\ ret.suggested = HIGH_PRICE_FLOOR

\* The new price is strictly greater than each of the lowest K prices of the
\* list (all of them when the list is shorter than K).
AboveLowestK ==
    Cardinality({i \in 1..Len(active_totals) : active_totals[i].c < extra})
        >= Min(LOWEST_ACTIVE_AVG_K, Len(active_totals))

\* C5 (as stated): adding an active price strictly greater than each of the
\* lowest-K prices of a non-empty list leaves the active median unchanged,
\* also when the list has fewer than K prices.
C5_Original ==
    (pc = "both" /\ AboveLowestK) => ret2.median_active = ret.median_active

\* C5 (amended): for a list of at least K positive active prices, adding a
\* price strictly greater than each of its K lowest prices leaves the active
\* median unchanged.
C5_Amended ==
    (pc = "both" /\ Len(active_totals) >= LOWEST_ACTIVE_AVG_K /\ AboveLowestK)
        => ret2.median_active = ret.median_active

C5_Witness ==
    /\ pc = "both"
    /\ Len(active_totals) > LOWEST_ACTIVE_AVG_K
    /\ AboveLowestK
    /\ \E i \in 1..Len(active_totals) : active_totals[i].c >= extra
    /\ ret2.median_active = ret.median_active

\* C6: _human_round is idempotent, keeps the whole-dollar part and ends in
\* one of the 30 palette endings.
C6_Idempotent ==
    (pc = "rounded2") =>
        /\ rounded2 = rounded
        /\ rounded \div 100 = value \div 100
        /\ (rounded % 100) \in Range(endings)
        /\ Len(endings) = 30

C6_Witness ==
    /\ pc = "rounded2"
    /\ value % 10 = 7
    /\ rounded # value
    /\ rounded2 = rounded

\* The for loop of _fetch_prices_for_query has gone through a comp
CompSeen == pc \in {"loop", "done"} /\ last.stage # "none"

TroutCase ==
    /\ pc = "done"
    /\ title = TroutSubject
    /\ items = <<TroutRefractor, TroutBase, TroutPrizm>>
    /\ idx = Len(items)

\* C4 (as stated): for the subject "2021 Topps Chrome Refractor #50 Mike
\* Trout" and the comps Chrome Refractor #50 Trout at 12.00, Chrome #50
\* Trout (base) at 3.50 and Prizm #50 Trout at 8.00 the filter chain admits
\* only the first comp; signature matching rejects the other two.
C4_OnlyFirst ==
    TroutCase =>
        /\ totals = <<1200>>
        /\ removed = << [title |-> TroutBase.title, stage |-> "strict"],
                        [title |-> TroutPrizm.title, stage |-> "strict"] >>

\* C7 (as stated): when the subject title holds a serial fragment, a comp is
\* admitted only if its title holds the identical fragment; a comp without
\* any fragment is not admitted.
C7_SerialRequired ==
    (CompSeen /\ _extract_serial_fragment(title) # "" /\ last.stage = "")
        => _extract_serial_fragment(last.title) = _extract_serial_fragment(title)

\* C8: when the subject title holds no serial fragment, the serial stage
\* drops no comp, serialized or not; a comp is dropped only by another stage.
C8_NoSerialReject ==
    (CompSeen /\ _extract_serial_fragment(title) = "")
        => /\ last.stage # "serial"
           /\ \A n \in 1..Len(removed) : removed[n].stage # "serial"

C8_Witness ==
    /\ CompSeen
    /\ _extract_serial_fragment(title) = ""
    /\ _extract_serial_fragment(last.title) # ""
    /\ last.stage = ""
    /\ last.price \in Range(totals)

\* No field can be extracted from the subject title
NoFields(sig) ==
    /\ sig.year = 0 /\ sig.card_num = "" /\ sig.player_tokens = <<>>
    /\ sig.brand_family = "" /\ sig.set_phrase = "" /\ sig.parallels = <<>>
    /\ ~sig.is_insert /\ ~sig.is_promo /\ ~sig.is_oddball

\* C9 (as stated): a subject title without any extractable field has the
\* empty signature {} and signature matching drops no comp for it.
C9_EmptySignature ==
    (CompSeen /\ NoFields(subject_sig))
        => /\ subject_sig = EmptySig
           /\ last.stage # "strict"

\* C10 (as stated): with a non-empty subject signature a comp passes
\* signature matching only if its parallel set includes every parallel of
\* the subject, also when the comp has no parallel at all.
C10_ParallelSuperset ==
    (CompSeen /\ subject_sig.keys > 0 /\ last.stage \in {"", "sold", "hybrid"})
        => Range(subject_sig.parallels)
               \subseteq Range(extract_parallels_from_title(last.title))

\* C11: for year, card number and brand family, a comp that reaches
\* _titles_match_strict is rejected by it when subject and comp both have
\* the field with different values, and the field's stage is never the one
\* that rejects when either side lacks the field.
ReachedStrict ==
    CompSeen /\ subject_sig.keys > 0
    /\ last.stage \in {"strict", "sold", "hybrid", ""}

C12_HybridOnlyFromTen ==
    (CompSeen /\ last.stage = "hybrid") => last.price >= 1000

\* A comp below 10 that safe_hybrid_filter would refuse is admitted
C12_Witness ==
    /\ CompSeen /\ last.stage = ""
    /\ last.price < 1000
    /\ last.price \in Range(totals)
    /\ ~safe_hybrid_filter(title, last.title, last.price)

\* C13: a comp priced 10 or more whose title contains a hard-exclude
\* keyword is admitted only if the subject's title contains the same
\* keyword.
C13_HardExcludeShared ==
    (CompSeen /\ last.stage = "" /\ last.price >= 1000) =>
      \A n \in 1..Len(HARD_EXCLUDE) :
         Contains(Lower(last.title), HARD_EXCLUDE[n])
           => Contains(Lower(title), HARD_EXCLUDE[n])

\* C14: no comp above 2.99 is admitted for a plain base subject (no chrome,
\* refractor or soft-parallel colour word), none above 3.99 for a chrome
\* subject without refractor or colour word, none above 100.00 for any
\* subject.
PlainBase(t) ==
    /\ ~Contains(Lower(t), "chrome")
    /\ ~Contains(Lower(t), "refractor")
    /\ ~ContainsAny(Lower(t), SOFT_EXCLUDE)

PlainChrome(t) ==
    /\ Contains(Lower(t), "chrome")
    /\ ~Contains(Lower(t), "refractor")
    /\ ~ContainsAny(Lower(t), SOFT_EXCLUDE)

C14_PriceTiers ==
    (CompSeen /\ last.stage = "") =>
      /\ PlainBase(title) => last.price <= BASE_CEILING
      /\ PlainChrome(title) => last.price <= CHROME_CEILING
      /\ last.price <= GLOBAL_CEILING

\* C19: every sleep of _request lasts at most MAX_SINGLE_COOLDOWN_SEC, a
\* _request call issues at most two HTTP requests, and a call whose first
\* answer is 429 has retried exactly once when it returns.
C19_BoundedRetryOnce ==
    /\ \A n \in 1..Len(slept) : slept[n] <= MAX_SINGLE_COOLDOWN_SEC
    /\ sent <= 2
    /\ (pc = "returned" /\ responses[1].status = 429) => sent = 2

\* search_active has ended, by a return or by an exception, after calling
\* a backend
ActiveEnded == pc \in {"returned", "raised"} /\ calls # <<>>

\* The comp a fetcher makes of an item of a well-formed payload
DeliveredComp(it) == [title |-> normalize_title(it.title), total |-> it.price]

\* The comps the backends have delivered in the 200 answers of the calls
Delivered ==
    UNION {{DeliveredComp(calls[n].answer.payload[k]) :
               k \in 1..Len(calls[n].answer.payload)} :
           n \in {m \in 1..Len(calls) : calls[m].answer.json}}

InList(comp, list) == \E n \in 1..Len(list) : list[n].title = comp.title
                                              /\ list[n].total = comp.total

\* C15 (as stated): when search_active has ended, every comp the backends
\* delivered has gone through the strict layer: no exception, and the comp
\* is in exactly one of filtered_items and removed_items, a removed comp
\* with the one reason of the stage that failed.
C15_StrictPartition ==
    ActiveEnded =>
        \A comp \in Delivered :
            /\ raised = ""
            /\ InList(comp, filtered_items) # InList(comp, removed_items)

NoDuplicateKeys(merged) ==
    \A m, n \in 1..Len(merged) : MergeKey(merged[m]) = MergeKey(merged[n]) => m = n

\* C16 (as stated): when search_active has ended, merged_items holds no
\* key twice and holds the key of every comp a browse or finding call
\* delivered.
C16_MergedOncePerKey ==
    ActiveEnded =>
        /\ NoDuplicateKeys(merged_items)
        /\ \A comp \in Delivered : MergeKey(comp) \in MergeKeys(merged_items)

\* A backend failure other than an expired token: the HTTP call raised, the
\* status is not 200, or the body of a 200 is malformed
BackendFailure(a) ==
    /\ ~_token_expired(a.resp)
    /\ a.resp.kind = "exception" \/ a.resp.status # 200 \/ ~a.json

\* C17 (as stated): a fetcher call that meets a timeout, a network error, a
\* non-200 status or a malformed payload returns the empty list, and
\* search_active goes on: no such failure ends it with an exception.
C17_FailureYieldsEmpty ==
    \A n \in 1..Len(calls) :
        BackendFailure(calls[n].answer) => calls[n].fetched = Fetched(<<>>)

\* The cache holds, under exactly the title, a non-empty price list not
\* older than the TTL
FreshEntries ==
    {e \in active_cache.entries :
        e.key = title /\ e.prices # <<>> /\ e.age <= ACTIVE_CACHE_TTL_MIN}

C20_TokenFatal ==
    \A n \in 1..Len(calls) :
        _token_expired(calls[n].answer.resp)
            => calls[n].fetched = Raising("SystemExit")

\* C21 (as stated): the query built by _build_dynamic_query carries the
\* suffix "-t" of a negative term t only if t does not occur literally in
\* the subject title.
C21_NegativeTermsFiltered ==
    pc = "built" =>
        \A n \in 1..Len(NegativeTerms) :
            NegativeTerms[n] \in Range(Split(dynamic_query))
                => ~Contains(Lower(title),
                             SubSeq(NegativeTerms[n], 2, Len(NegativeTerms[n])))

\* The queries of the priority list for the signature in subject_sig,
\* each normalized
PriorityList ==
    NormalizeAll(
        PriorityQueries(subject_sig.year, subject_sig.card_num,
                        Strip(Join(subject_sig.player_tokens, " ")),
                        CorePhrase(subject_sig, norm_once), norm_once))

\* The first entry of list that is not empty and not among taken
FirstNew(list, taken) ==
    LET fresh == SelectSeq(list, LAMBDA q : q # "" /\ q \notin taken)
    IN IF fresh = <<>> THEN "" ELSE fresh[1]

\* C22: the list returned by _build_token_based_queries for a title with a
\* signature follows the priority order (year phrase number player, phrase
\* number player, player phrase number, year phrase player, year phrase,
\* phrase player, normalized title): every entry is the first query of the
\* priority list not yet in the list, so of equal queries the first,
\* highest-priority one is kept, every query of the priority list is in
\* the list, and no two entries are equal, as they are or normalized and
\* lowercased once more.
C22_PriorityOrder ==
    (pc \in {"dynamic", "built"} /\ subject_sig.keys # 0) =>
        /\ \A k \in 1..Len(token_queries) :
              token_queries[k] =
                  FirstNew(PriorityList,
                           Range(SubSeq(token_queries, 1, k - 1)))
        /\ FirstNew(PriorityList, Range(token_queries)) = ""
        /\ \A i, j \in 1..Len(token_queries) :
              i # j =>
                  /\ token_queries[i] # token_queries[j]
                  /\ Lower(normalize_title_global(token_queries[i]))
                       # Lower(normalize_title_global(token_queries[j]))

\* A title whose normalized form is also its query "year phrase player":
\* the normalized title, last in the priority list, is dropped as a
\* repetition of the first entry.
C22_Witness ==
    /\ pc = "built" /\ tables = LoadedTables
    /\ title = "2021 Topps Chrome Trout"
    /\ token_queries = <<"2021 topps chrome trout", "2021 topps chrome",
                         "topps chrome trout">>
    /\ Len(PriorityList) = 4 /\ PriorityList[4] = PriorityList[1]

\* C23 (as stated): normalize_title_global is idempotent and
\* case-insensitive: normalizing the normalized title changes nothing, and
\* the upper-cased title normalizes to the same string.
C23_NormalizeIdempotent ==
    pc \notin {"normalize", "again"} =>
        norm_twice = norm_once /\ norm_upper = norm_once

\* The ten keys of a signature, each with a value of its type
WellFormed(sig) ==
    /\ sig.keys = 10
    /\ sig.year = 0 \/ sig.year \in 1900..2099
    /\ IsAllDigits(sig.card_num) \/ sig.card_num = ""
    /\ sig.is_insert \in BOOLEAN /\ sig.is_promo \in BOOLEAN
    /\ sig.is_oddball \in BOOLEAN

\* C24 (as stated): for every title and every loaded rule table
\* _extract_card_signature_from_title returns a well-formed signature and
\* does not raise.
C24_SignatureTotal ==
    pc \notin {"normalize", "again", "signature"} =>
        /\ raised = ""
        /\ title # "" => WellFormed(subject_sig)

\* The least shipping cost of an item summary, 0 without shipping options
MinShipping(costs) ==
    IF costs = <<>> THEN 0
    ELSE CHOOSE c \in Range(costs) : \A d \in Range(costs) : c <= d

\* total is the comp total of an item of price p and shipping cost ship:
\* the sum, for a price of at least 0.99 and a sum from PRICE_FLOOR to
\* 100.00; None, the item being discarded, for every other item.
TotalWithin(total, p, ship) ==
    IF p # None /\ p >= 99 /\ p + ship >= PRICE_FLOOR /\ p + ship <= 10000
    THEN total = p + ship
    ELSE total = None

\* C25: the total of a comp is its item price plus its least shipping cost,
\* with an item price of at least 0.99 and a total from PRICE_FLOOR (1.50)
\* to 100.00; for an item outside these bounds both price extractions
\* return None, on which the fetch loop skips the item.
C25_TotalInBounds ==
    /\ pc = "browse_total" =>
          TotalWithin(browse_total, summary.price,
                      MinShipping(summary.shippingOptions))
    /\ pc = "finding_total" =>
          TotalWithin(finding_total, finding_item.price,
                      IF finding_item.shipping = None THEN 0
                      ELSE finding_item.shipping)

\* An item of 1.00 with shipping offers of 0.51 and 0.50: total 1.50
C25_Witness ==
    /\ pc = "browse_total" /\ summary.price = 100
    /\ summary.shippingOptions = <<51, 50>> /\ browse_total = 150

\* The batch run is under way or over
Running == pc \in {"loop", "interrupted", "finished"}

\* C26: while DRY_RUN is true process_item calls update_ebay_price for no
\* item; in LIVE mode it calls it only for an item with a suggested and a
\* current price whose difference is at least 0.30 or at least
\* PERCENT_THRESHOLD percent of the current price.
C26_UpdateOnlyAboveThreshold ==
    Running =>
        /\ DRY_RUN => ~row.update_sent /\ "revise" \notin touched
        /\ row.update_sent =>
              /\ ~DRY_RUN
              /\ row.suggested # None /\ row.current_price # None
              /\ \/ Abs(row.suggested - row.current_price) >= 30
                 \/ Abs(row.suggested - row.current_price) * 100
                      >= PERCENT_THRESHOLD * row.current_price

\* A LIVE update for a difference of 0.19 that is over 10% of 1.80
C26_Witness ==
    /\ Running /\ ~DRY_RUN /\ row.update_sent
    /\ row.suggested = 199 /\ row.current_price = 180

\* C27: after any sequence of the menu choices "0" and "S" from TEST mode
\* with the sandbox off, SANDBOX_MODE implies DRY_RUN; the choice "S" in
\* LIVE mode changes neither flag, and the choice "0" in TEST mode leads
\* to LIVE mode with the sandbox off.
C27_SandboxOnlyInTest ==
    /\ SANDBOX_MODE => DRY_RUN
    /\ (choice = "S" /\ ~flags_before.DRY_RUN) => Flags = flags_before
    /\ (choice = "0" /\ flags_before.DRY_RUN) => ~DRY_RUN /\ ~SANDBOX_MODE

\* The choice "0" made in TEST mode with the sandbox on
C27_Witness ==
    /\ pc = "menu" /\ choice = "0"
    /\ flags_before = [DRY_RUN |-> TRUE, SANDBOX_MODE |-> TRUE]
    /\ ~DRY_RUN /\ ~SANDBOX_MODE

\* C28: a run started with SANDBOX_MODE true, interrupted or not, writes
\* no autosave, saves no resume index, does not load or save the active
\* cache and passes None for it, sends no revise call, and skips no id:
\* the ids the loop has gone through are the ids of the rows.
C28_SandboxLeavesNoTrace ==
    (Running /\ SANDBOX_MODE) =>
        /\ touched = {} /\ save_calls = 0 /\ resume_file = None
        /\ autosave.tmp = "absent" /\ autosave.fallbacks = 0
        /\ active_cache = NoCache
        /\ results = [n \in 1..item_no |-> n]

\* A sandbox run to its end with a resume index and an autosave of two
\* rows, each of which would skip ids outside the sandbox
C28_Witness ==
    /\ pc = "finished" /\ SANDBOX_MODE /\ item_no = MaxIds
    /\ resume_from_index = 3 /\ autosave.base = CsvFile(2)
    /\ Len(results) = MaxIds

\* C29: a call of _autosave_write_atomic with fewer rows than the readable
\* autosave file leaves the folder as it is; the row count of the
\* readable file never goes down; and the file changes only in
\* os.replace, from a completely written .tmp file to the rows of the
\* frame.
C29_AutosaveNeverShrinks ==
    [][ /\ (autosave.base.readable /\ autosave'.base.readable)
              => autosave'.base.rows >= autosave.base.rows
        /\ ( /\ pc = "autosave" /\ save_calls' = save_calls + 1
             /\ autosave.base.readable
             /\ frame_len' < autosave.base.rows )
              => autosave' = autosave /\ pc' = "autosave"
        /\ autosave'.base # autosave.base
              => /\ pc = "replace" /\ autosave.tmp = "complete"
                 /\ autosave'.base = CsvFile(frame_len)
                 /\ autosave'.tmp = "absent" ]_vars

\* A frame of one row offered to an autosave the call before wrote with
\* two rows
C29_Witness ==
    /\ pc = "autosave" /\ save_calls = 2 /\ frame_len = 1
    /\ autosave.base = CsvFile(2) /\ autosave.tmp = "absent"

\* C30: in get_price_strict every adjustment after human rounding only
\* raises the suggestion: the returned price is at least the human-rounded
\* primary median and at least PRICE_FLOOR, it equals the rounded median
\* exactly when the note names no clamp, and the final floor re-clamp never
\* acts (a "Floor clamp" note always comes from the clamp that directly
\* follows the rounding, that is from a rounded median below PRICE_FLOOR).
PrimaryOf(r) ==
    IF r.median_active # None THEN r.median_active ELSE r.median_sold

ClampNotes ==
    {"Floor clamp", "Drop capped 40% vs current", "High-price floor clamp"}

C30_ClampsOnlyRaise ==
    Priced =>
        /\ ret.suggested >= _human_round(PrimaryOf(ret), fp.tie)
        /\ ret.suggested >= PRICE_FLOOR
        /\ (ret.suggested = _human_round(PrimaryOf(ret), fp.tie))
               <=> (Range(ret.note) \cap ClampNotes = {})
        /\ ("Floor clamp" \in Range(ret.note))
               => _human_round(PrimaryOf(ret), fp.tie) < PRICE_FLOOR
        /\ ("Floor clamp" \in Range(ret.note)
               /\ Range(ret.note) \cap ClampNotes = {"Floor clamp"})
               => ret.suggested = PRICE_FLOOR

\* A rounded median below the floor, lifted by the floor clamp and then by
\* the high-price floor of an item currently priced at 4.99 or more.
C30_Witness ==
    /\ Priced
    /\ current_price # None
    /\ current_price >= HIGH_PRICE_THRESHOLD
    /\ _human_round(PrimaryOf(ret), fp.tie) < PRICE_FLOOR
    /\ {"Floor clamp", "High-price floor clamp"} \subseteq Range(ret.note)
    /\ ret.suggested = HIGH_PRICE_FLOOR

====
